---- MODULE Spec2Model ----
(***************************************************************************)
(* ReAct agent control loop (ReActAgent.reply), the Toolkit that resolves  *)
(* and invokes tool functions, and the acting tasks of one iteration.      *)
(* Spec is one reply call of one agent built without long-term memory and  *)
(* without registered hooks. SpecStream feeds it streamed model responses, *)
(* SpecCall adds the __call__ wrapper, interrupt() and a second call,      *)
(* SpecDefault the agent configured with max_iters = 0, and SpecHooks the  *)
(* hook registries and the dispatch of the hooks of one lifecycle point.   *)
(* SpecGateway gives the agent a long-term memory in each of its modes,    *)
(* SpecToolkit resets the equipped set between two calls, SpecHookTypes    *)
(* registers hooks on the reasoning and acting hook types through the      *)
(* general registration, and SpecReasoningHook runs reply with             *)
(* post-reasoning hooks. SpecLive is Spec with a fair scheduler,           *)
(* SpecNullHook dispatches hooks that return null, SpecObserve calls       *)
(* observe, SpecRegistry registers and removes tools, SpecMeta builds the  *)
(* agent with the reset_equipped_tools meta tool, SpecOverlap starts a     *)
(* second reply call while the first is suspended, and SpecSimpleMemory    *)
(* records into a SimpleLongTermMemory.                                    *)
(***************************************************************************)
EXTENDS Integers, Sequences, FiniteSets, TLC

\* ------------------------------------------------------------------ bounds
\* largest configured max_iters
MaxK == 2
\* most tool_use blocks in one model output
MaxActions == 2
\* most tool_use blocks the model emits over one reply call
MaxRequests == 3
\* most results a tool implementation yields
MaxChunks == 2
\* most top-level calls made on one agent
MaxCalls == 2
\* most hook registrations
MaxHooks == 2
\* most messages handed to observe
MaxObserved == 2
\* largest maxEntries of a SimpleLongTermMemory
MaxEntries == 2

\* config.max_iters || 10
DefaultMaxIters == 10

VARIABLES
  parallelToolCalls,        \* ReActAgent.parallelToolCalls
  maxIters,                 \* ReActAgent.maxIters
  tools,                    \* Toolkit.tools: name -> metadata
  equippedTools,            \* Toolkit.equippedTools
  requiredStructuredModel,  \* ReActAgent.requiredStructuredModel
  memory,                   \* InMemoryMemory.messages
  pc,                       \* position of the reply call
  iteration,                \* loop variable of reply
  replyMsg,                 \* local replyMsg of reply
  tasks,                    \* actingPromises of the current iteration
  stats,                    \* observation counters of the current call
  config,                   \* AgentConfig.max_iters as configured
  replyTask,                \* AgentBase.replyTask
  caller,                   \* the top-level calls made and interrupt() calls
  hooks,                    \* the class-level and instance-level hook stores
  dispatch,                 \* the hook dispatch in progress
  longTermMemory            \* ReActAgent.longTermMemory and its mode

\* the agent, its toolkit and its memory
agentVars == <<parallelToolCalls, maxIters, tools, equippedTools,
               requiredStructuredModel, memory, pc, iteration, replyMsg,
               tasks, stats, config, longTermMemory>>
\* the wrapper around reply
callVars == <<replyTask, caller>>
\* the hook system
hookVars == <<hooks, dispatch>>

vars == <<agentVars, callVars, hookVars>>

\* ------------------------------------------------------------ JSON values
Str(s) == [type |-> "string", val |-> s]
Num(s) == [type |-> "number", val |-> s]
Undefined == [type |-> "undefined", val |-> ""]
Null == [tag |-> "null"]

\* an object literal: keys -> values
EmptyObj == [k \in {} |-> Undefined]

\* Array.prototype.join('\n') over a sequence of strings
RECURSIVE JoinLines(_)
JoinLines(ss) ==
  IF Len(ss) = 0 THEN ""
  ELSE IF Len(ss) = 1 THEN ss[1]
  ELSE ss[1] \o "\n" \o JoinLines(Tail(ss))

\* ---------------------------------------------------------------- messages
createTextBlock(text) == [type |-> "text", text |-> text]
createThinkingBlock(text) == [type |-> "thinking", thinking |-> text]
createToolUseBlock(name, input, id) ==
  [type |-> "tool_use", id |-> id, name |-> name, input |-> input]
createToolResultBlock(id, name, output) ==
  [type |-> "tool_result", id |-> id, name |-> name, output |-> output]

\* content is either a plain string or an array of content blocks
Plain(text) == [tag |-> "string", text |-> text]
Blocks(bs) == [tag |-> "array", blocks |-> bs]

Message(name, content, role, metadata) ==
  [name |-> name, content |-> content, role |-> role, metadata |-> metadata]

IsTextBlock(b) == b.type = "text"
IsToolUse(b) == b.type = "tool_use"

getTextContent(msg) ==
  IF msg.content.tag = "string" THEN msg.content.text
  ELSE LET tb == SelectSeq(msg.content.blocks, IsTextBlock)
       IN JoinLines([i \in 1..Len(tb) |-> tb[i].text])

getToolUseBlocks(msg) ==
  IF msg.content.tag = "string" THEN <<>>
  ELSE SelectSeq(msg.content.blocks, IsToolUse)

hasToolUse(msg) == Len(getToolUseBlocks(msg)) > 0

AgentName == "agent"
finishFunctionName == "generate_response"

\* ------------------------------------------------------------- ToolResponse
ToolResponse(text, metadata, isLast) ==
  [content |-> <<createTextBlock(text)>>, metadata |-> metadata,
   is_last |-> isLast]

createErrorResponse(error) ==
  ToolResponse("error: " \o error,
               [success |-> FALSE, response_msg |-> Null], TRUE)

createSuccessResponse(text) ==
  ToolResponse(text, [success |-> TRUE, response_msg |-> Null], TRUE)

\* ------------------------------------------------- structured-output model
\* a zod object schema with one field: z.object({key: z.<type>()[.optional()]})
NoContract == [tag |-> "none", key |-> "", type |-> "", optional |-> FALSE]
TitleRequired ==
  [tag |-> "object", key |-> "title", type |-> "string", optional |-> FALSE]
TitleOptional ==
  [tag |-> "object", key |-> "title", type |-> "string", optional |-> TRUE]
Contracts == {NoContract, TitleRequired, TitleOptional}

\* schema.parse(obj): throws (ok = FALSE) or returns the stripped object
Parse(schema, obj) ==
  IF schema.key \in DOMAIN obj
  THEN IF obj[schema.key].type = schema.type
       THEN [ok |-> TRUE, data |-> [k \in {schema.key} |-> obj[k]]]
       ELSE [ok |-> FALSE, data |-> EmptyObj]
  ELSE IF schema.optional
       THEN [ok |-> TRUE, data |-> EmptyObj]
       ELSE [ok |-> FALSE, data |-> EmptyObj]

\* ------------------------------------------------------------------ Toolkit
ToolMetadata(props, required, impl) ==
  [properties |-> props, required |-> required, impl |-> impl,
   extendedModel |-> NoContract]

\* the registry after setupToolkit on a toolkit holding two user tools
InitialTools ==
  [n \in {finishFunctionName, "echo", "hidden"} |->
     IF n = finishFunctionName
     THEN ToolMetadata(<<"response">>, <<"response">>, "finish")
     ELSE IF n = "echo" THEN ToolMetadata(<<"a", "b">>, <<"a">>, "user")
     ELSE ToolMetadata(<<"a">>, <<"a">>, "user")]

InSeq(x, s) == \E i \in 1..Len(s) : s[i] = x

\* validateInput: the first required name missing from the input, or ""
MissingKey(input, k) == ~(k \in DOMAIN input)
validateInput(input, schema) ==
  LET missing == SelectSeq(schema.required, LAMBDA r : MissingKey(input, r))
  IN IF Len(missing) > 0 THEN missing[1] ELSE ""

\* callToolFunctionWithArgs: named arguments to positional ones
PositionalArgs(input, schema) ==
  [i \in 1..Len(schema.properties) |->
     IF schema.properties[i] \in DOMAIN input
     THEN input[schema.properties[i]] ELSE Undefined]

MissingRequiredProperty(input, schema) ==
  \E i \in 1..Len(schema.properties) :
     /\ MissingKey(input, schema.properties[i])
     /\ InSeq(schema.properties[i], schema.required)

\* what a user tool implementation does when called and drained
ToolPlans ==
  {[shape |-> "throws", n |-> 0, thenThrow |-> FALSE],
   [shape |-> "single", n |-> 1, thenThrow |-> FALSE]}
  \cup {[shape |-> "generator", n |-> n, thenThrow |-> FALSE] : n \in 1..MaxChunks}
  \cup {[shape |-> "generator", n |-> n, thenThrow |-> TRUE] : n \in 0..(MaxChunks - 1)}

NoPlan == [shape |-> "none", n |-> 0, thenThrow |-> FALSE]

\* the AsyncGenerator callToolFunction returns
Generator(kind, text, args, plan) ==
  [kind |-> kind, text |-> text, args |-> args, plan |-> plan]

createErrorGenerator(text) == Generator("error", text, <<>>, NoPlan)

\* mutant: the implementation is called without validating the input
callToolFunctionUnvalidated(toolCall, plan) ==
  LET name == toolCall.name
      input == toolCall.input
  IN
  IF ~(name \in equippedTools) \/ ~(name \in DOMAIN tools)
  THEN [gen |-> createErrorGenerator("tool '" \o name \o "' not equipped"),
        called |-> FALSE, args |-> <<>>]
  ELSE
    LET args == PositionalArgs(input, tools[name])
    IN IF tools[name].impl = "finish"
       THEN [gen |-> Generator("finish", "", args, NoPlan),
             called |-> TRUE, args |-> args]
       ELSE [gen |-> Generator("impl", "", args, plan),
             called |-> TRUE, args |-> args]

\* mutant: resolution in the whole registry, not in the equipped set
callToolFunctionAnyRegistered(toolCall, plan) ==
  LET name == toolCall.name
      input == toolCall.input
  IN
  IF ~(name \in DOMAIN tools)
  THEN [gen |-> createErrorGenerator("tool '" \o name \o "' not found"),
        called |-> FALSE, args |-> <<>>]
  ELSE
    LET args == PositionalArgs(input, tools[name])
    IN IF validateInput(input, tools[name]) # ""
       THEN [gen |-> createErrorGenerator("execution failed: missing"),
             called |-> FALSE, args |-> <<>>]
       ELSE IF tools[name].impl = "finish"
       THEN [gen |-> Generator("finish", "", args, NoPlan),
             called |-> TRUE, args |-> args]
       ELSE [gen |-> Generator("impl", "", args, plan),
             called |-> TRUE, args |-> args]

\* callToolFunction(toolCall): the generator returned, whether the tool
\* implementation was called, and the positional arguments it received
callToolFunction(toolCall, plan) ==
  LET name == toolCall.name
      input == toolCall.input
  IN
  IF ~(name \in equippedTools)
  THEN [gen |-> createErrorGenerator("tool '" \o name \o "' not equipped"),
        called |-> FALSE, args |-> <<>>]
  ELSE IF ~(name \in DOMAIN tools)
  THEN [gen |-> createErrorGenerator("tool '" \o name \o "' not found"),
        called |-> FALSE, args |-> <<>>]
  ELSE
    LET tool == tools[name]
        missing == validateInput(input, tool)
        args == PositionalArgs(input, tool)
    IN
    IF missing # ""
    THEN [gen |-> createErrorGenerator("execution failed: missing " \o missing),
          called |-> FALSE, args |-> <<>>]
    ELSE IF MissingRequiredProperty(input, tool)
    THEN [gen |-> createErrorGenerator("execution failed: missing property"),
          called |-> FALSE, args |-> <<>>]
    ELSE IF tool.impl = "finish"
    THEN [gen |-> Generator("finish", "", args, NoPlan),
          called |-> TRUE, args |-> args]
    ELSE IF plan.shape = "throws"
    THEN [gen |-> createErrorGenerator("execution failed: thrown"),
          called |-> TRUE, args |-> args]
    ELSE IF plan.shape = "single"
    THEN [gen |-> Generator("wrap", "", args, plan),
          called |-> TRUE, args |-> args]
    ELSE [gen |-> Generator("impl", "", args, plan),
          called |-> TRUE, args |-> args]

\* ------------------------------------------------------ generator stepping
NoChunk == ToolResponse("", [success |-> FALSE, response_msg |-> Null], FALSE)

\* body of ReActAgent.generateResponse(response, ...kwargs): the one result
\* it yields, given the agent's requiredStructuredModel at that moment
generateResponse(args, contract) ==
  LET response == args[1]
      kwargs == Tail(args)
      obj == IF Len(kwargs) > 0 /\ kwargs[1] # Undefined
             THEN kwargs[1] ELSE EmptyObj
      parsed == Parse(contract, obj)
  IN
  IF contract # NoContract /\ ~parsed.ok
  THEN ToolResponse("validation error",
                    [success |-> FALSE, response_msg |-> Null], TRUE)
  ELSE ToolResponse("reply generated",
         [success |-> TRUE,
          response_msg |->
            Message(AgentName, Plain(response.val), "assistant",
                    IF contract # NoContract THEN parsed.data ELSE EmptyObj)],
         TRUE)

\* an array of tool names as a tool argument
NameList(names) == [type |-> "array", items |-> names]

\* the generator createResetToolsWrapper returns
ResetPlan == [shape |-> "reset", n |-> 1, thenThrow |-> FALSE]

\* mutant: the names are equipped without being checked
ResetToUnchecked(toolNames) == toolNames

\* resetEquippedTools(toolNames): the equipped set afterwards; it throws,
\* before touching the set, when a name is not registered
ResetTo(toolNames) ==
  IF toolNames \subseteq DOMAIN tools THEN toolNames ELSE equippedTools

\* createResetToolsWrapper: the one result it yields, a failure when
\* resetEquippedTools threw
ResetResponse(toolNames) ==
  IF toolNames \subseteq DOMAIN tools
  THEN ToolResponse("tools reset", [success |-> TRUE, response_msg |-> Null],
                    TRUE)
  ELSE ToolResponse("reset failed",
                    [success |-> FALSE, response_msg |-> Null], TRUE)

\* one next() on the generator after `yielded` results
GenNext(gen, yielded, contract) ==
  IF gen.kind = "error"
  THEN IF yielded = 0
       THEN [kind |-> "yield", chunk |-> createErrorResponse(gen.text)]
       ELSE [kind |-> "return", chunk |-> NoChunk]
  ELSE IF gen.kind = "finish"
  THEN IF yielded = 0
       THEN [kind |-> "yield", chunk |-> generateResponse(gen.args, contract)]
       ELSE [kind |-> "return", chunk |-> NoChunk]
  ELSE IF gen.kind = "wrap"
  THEN IF yielded = 0
       THEN [kind |-> "yield", chunk |-> createSuccessResponse("out1")]
       ELSE [kind |-> "return", chunk |-> NoChunk]
  ELSE IF gen.plan = ResetPlan
  THEN IF yielded = 0
       THEN [kind |-> "yield", chunk |-> ResetResponse(gen.args[1].items)]
       ELSE [kind |-> "return", chunk |-> NoChunk]
  ELSE IF yielded < gen.plan.n
  THEN [kind |-> "yield",
        chunk |-> ToolResponse("out" \o ToString(yielded + 1),
                    [success |-> TRUE, response_msg |-> Null],
                    yielded + 1 = gen.plan.n /\ ~gen.plan.thenThrow)]
  ELSE IF gen.plan.thenThrow
  THEN [kind |-> "throw", chunk |-> NoChunk]
  ELSE [kind |-> "return", chunk |-> NoChunk]

\* ------------------------------------------------------------ acting tasks
NoGen == Generator("none", "", <<>>, NoPlan)
EmptyOutput == [type |-> "array", val |-> ""]

NewTask(toolCall) ==
  [call |-> toolCall, pc |-> "start", gen |-> NoGen, called |-> FALSE,
   args |-> <<>>, results |-> <<>>, output |-> EmptyOutput,
   responseMsg |-> Null, rejected |-> FALSE]

\* chunk.content.map(block => block.text).join('\n')
ChunkText(chunk) ==
  JoinLines([i \in 1..Len(chunk.content) |-> chunk.content[i].text])

ToolResultMessage(task) ==
  Message("system",
          Blocks(<<createToolResultBlock(task.call.id, task.call.name,
                                         task.output)>>),
          "system", EmptyObj)

\* acting, loop body: the task after one result of the generator
OnChunk(task, chunk) ==
  [task EXCEPT
     !.results = Append(@, chunk),
     !.output = Str(ChunkText(chunk)),
     !.responseMsg =
        IF task.call.name = finishFunctionName /\ chunk.metadata.success
        THEN chunk.metadata.response_msg ELSE @]

\* mutant: no catch block, the promise of acting rejects
ActingNoCatch(task) == [task EXCEPT !.rejected = TRUE]

\* acting, catch block: the error is logged and written to the tool result,
\* the promise of acting still resolves
ActingCatch(task) ==
  [task EXCEPT !.output = Str("tool call failed: thrown"),
               !.rejected = FALSE]

PlansFor(toolCall) ==
  IF /\ toolCall.name \in equippedTools
     /\ toolCall.name \in DOMAIN tools
     /\ tools[toolCall.name].impl = "user"
  THEN ToolPlans
  ELSE IF /\ toolCall.name \in equippedTools
          /\ toolCall.name \in DOMAIN tools
          /\ tools[toolCall.name].impl = "gateway"
  THEN {[shape |-> "generator", n |-> 1, thenThrow |-> FALSE]}
  ELSE IF /\ toolCall.name \in equippedTools
          /\ toolCall.name \in DOMAIN tools
          /\ tools[toolCall.name].impl = "reset"
  THEN {ResetPlan}
  ELSE {NoPlan}

\* ------------------------------------------------------------ model outputs
CallKinds == {"FIN", "FIN_T", "FIN_BAD", "ECHO_A", "ECHO_B", "HIDDEN", "GHOST"}

\* the tool_use block of kind `kind` at position k of iteration `it`
CallOf(kind, it, k) ==
  LET id == [it |-> it, k |-> k]
      r == Str("r" \o ToString(k))
  IN
  IF kind = "FIN"
  THEN createToolUseBlock(finishFunctionName, [response |-> r], id)
  ELSE IF kind = "FIN_T"
  THEN createToolUseBlock(finishFunctionName,
                          [response |-> r, title |-> Str("t")], id)
  ELSE IF kind = "FIN_BAD"
  THEN createToolUseBlock(finishFunctionName,
                          [response |-> r, title |-> Num("5")], id)
  ELSE IF kind = "ECHO_A"
  THEN createToolUseBlock("echo", [a |-> Str("1")], id)
  ELSE IF kind = "ECHO_B"
  THEN createToolUseBlock("echo", [b |-> Str("2")], id)
  ELSE IF kind = "HIDDEN"
  THEN createToolUseBlock("hidden", [a |-> Str("1")], id)
  ELSE createToolUseBlock("ghost", [a |-> Str("1")], id)

Min(a, b) == IF a < b THEN a ELSE b

CallSeqs(it, budget) ==
  UNION {{[k \in 1..n |-> CallOf(f[k], it, k)] : f \in [1..n -> CallKinds]} :
         n \in 1..Min(MaxActions, budget)}

TextPayloads ==
  {<<>>,
   <<createTextBlock("x")>>,
   <<createTextBlock("x"), createTextBlock("y")>>,
   <<createThinkingBlock("h"), createTextBlock("x")>>}

\* a model response: one complete payload, or a lazy sequence of partial
\* payloads each carrying everything produced so far
Complete(payload) == [stream |-> FALSE, chunks |-> <<payload>>]
Stream(chunks) == [stream |-> TRUE, chunks |-> chunks]

TextStreams ==
  {Stream(<<(<<createTextBlock("x")>>), (<<createTextBlock("xy")>>)>>)}

CallStreams(it, budget) ==
  IF budget < 1 THEN {}
  ELSE {Stream(<<(<<createTextBlock("x")>>),
                 (<<createTextBlock("xy"), CallOf(kind, it, 1)>>)>>) :
        kind \in {"FIN", "ECHO_A"}}

ModelOutputs(it, budget) ==
  {Complete(p) : p \in TextPayloads \cup CallSeqs(it, budget)}
  \cup TextStreams \cup CallStreams(it, budget)

\* what the model answers to the summarizing prompt: text, or text with a
\* tool_use block
SummaryOutputs ==
  {Complete(p) : p \in TextPayloads} \cup TextStreams
  \cup {Complete(<<createTextBlock("x"), CallOf(kind, MaxK, 1)>>) :
          kind \in {"FIN", "ECHO_A"}}

\* the payload the model finally reports
FinalPayload(out) == out.chunks[Len(out.chunks)]

CountToolUse(out) ==
  Len(SelectSeq(FinalPayload(out), IsToolUse))

\* ---------------------------------------------------------------- reasoning
RECURSIVE ConcatAll(_)
ConcatAll(chunks) ==
  IF chunks = <<>> THEN <<>> ELSE Head(chunks) \o ConcatAll(Tail(chunks))

\* reasoning: the assistant message built from the model response
AggregateReasoning(out) ==
  IF out.stream
  THEN Message(AgentName, Blocks(ConcatAll(out.chunks)), "assistant", EmptyObj)
  ELSE Message(AgentName, Blocks(out.chunks[1]), "assistant", EmptyObj)

\* -------------------------------------------------------------------- print
\* The objects print works on, as cells of a heap: cell 1 is the argument
\* bag { msg, last }, cell 2 the message, cell 3 the array held by
\* msg.content when the content is an array.  A cell names another cell by
\* its index; contentRef = 0 is a content that is a plain string.
PrintArgs(msg, last) ==
  IF msg.content.tag = "array"
  THEN <<[kind |-> "bag", msg |-> 2, last |-> last],
         [kind |-> "message", fields |-> msg, contentRef |-> 3],
         [kind |-> "array", items |-> msg.content.blocks]>>
  ELSE <<[kind |-> "bag", msg |-> 2, last |-> last],
         [kind |-> "message", fields |-> msg, contentRef |-> 0]>>

\* the message a cell stands for, with the content its array now holds
ReadMessage(heap, r) ==
  IF heap[r].contentRef = 0 THEN heap[r].fields
  ELSE [heap[r].fields EXCEPT
          !.content = Blocks(heap[heap[r].contentRef].items)]

\* mutant: the hooks get the caller's own objects
deepCloneShared(heap, root) == [heap |-> heap, root |-> root]

\* deepClone(args): every object and array reachable from the bag is copied
\* into a new cell, and the copies name each other
deepCloneCells(heap, root) ==
  LET n == Len(heap)
      Copy(cell) ==
        IF cell.kind = "bag" THEN [cell EXCEPT !.msg = @ + n]
        ELSE IF cell.kind = "message" /\ cell.contentRef # 0
        THEN [cell EXCEPT !.contentRef = @ + n]
        ELSE cell
  IN [heap |-> heap \o [r \in 1..n |-> Copy(heap[r])], root |-> root + n]

\* block.input?.response || ''
ResponseText(input) ==
  IF "response" \in DOMAIN input /\ input.response.type = "string"
  THEN input.response.val ELSE ""

\* finishFunctionPrePrintHook(agent, kwargs): the first completion request
\* of kwargs.msg.content is overwritten in place by a text block and kwargs
\* is returned; without one, or with a string content, it returns null
\* (result 0)
finishFunctionPrePrintHook(heap, kwargs) ==
  LET msg == heap[heap[kwargs].msg]
  IN IF msg.contentRef = 0 THEN [heap |-> heap, result |-> 0]
     ELSE LET items == heap[msg.contentRef].items
              hits == {i \in 1..Len(items) :
                         /\ IsToolUse(items[i])
                         /\ items[i].name = finishFunctionName}
          IN IF hits = {} THEN [heap |-> heap, result |-> 0]
             ELSE LET i == CHOOSE i \in hits : \A j \in hits : i <= j
                  IN [heap |-> [heap EXCEPT ![msg.contentRef].items[i] =
                                  createTextBlock(ResponseText(items[i].input))],
                      result |-> kwargs]

\* the one element of a singleton
The(S) == CHOOSE x \in S : TRUE

\* print(msg, last) with the pre_print hook the constructor installs:
\* applyPreHooks clones the bag and runs the hook on the clone; a null
\* result leaves the cloned bag as the arguments of doPrint
PrintHeap(msg, last) ==
  The({The({[heap |-> hooked.heap,
             modifiedArgs |-> IF hooked.result # 0 THEN hooked.result
                              ELSE cloned.root] :
            hooked \in {finishFunctionPrePrintHook(cloned.heap,
                                                   cloned.root)}}) :
       cloned \in {deepCloneCells(PrintArgs(msg, last), 1)}})

\* the message doPrint is given
Displayed(msg, last) ==
  The({ReadMessage(p.heap, p.heap[p.modifiedArgs].msg) :
       p \in {PrintHeap(msg, last)}})

\* the message the caller of print holds once print has returned
AfterPrint(msg, last) ==
  The({ReadMessage(p.heap, 2) : p \in {PrintHeap(msg, last)}})

\* reasoning: a message without tool_use becomes one completion request
SynthesizeFinish(msg, it) ==
  IF ~hasToolUse(msg)
  THEN [msg EXCEPT !.content =
          Blocks(<<createToolUseBlock(finishFunctionName,
                      [response |-> Str(getTextContent(msg))],
                      [it |-> it, k |-> 0])>>)]
  ELSE msg

\* the message is printed as soon as it is built, before the completion
\* request is synthesized (in a stream the last print is the one that finds
\* the final content)
ReasoningMessage(out, it) ==
  SynthesizeFinish(AfterPrint(AggregateReasoning(out), TRUE), it)

\* mutant: the tool_use blocks are taken out of the summarizing output
AggregateSummaryTextOnly(out) ==
  Message(AgentName,
          Blocks(SelectSeq(out.chunks[Len(out.chunks)], IsTextBlock)),
          "assistant", EmptyObj)

\* summarizing: the reply built from the model response
AggregateSummary(out) ==
  IF out.stream
  THEN Message(AgentName, Blocks(out.chunks[Len(out.chunks)]), "assistant",
               EmptyObj)
  ELSE Message(AgentName, Blocks(out.chunks[1]), "assistant", EmptyObj)

\* ------------------------------------------------------------------- reply
\* the input of a reply call
UserMsg == Message("user", Plain("q"), "user", EmptyObj)

\* ------------------------------------------------------- long-term memory
\* config.long_term_memory and config.long_term_memory_mode, whether the
\* gateway holds entries, and what the current reply call did with it:
\* retrieve and record called by reply, retrieveFromMemory and
\* recordToMemory run as tools, and the transcript handed to record
Gateway(present, mode, stored) ==
  [present |-> present, mode |-> mode, stored |-> stored,
   retrieved |-> 0, recorded |-> 0, toolRetrieved |-> 0, toolRecorded |-> 0,
   transcript |-> <<>>]

LongTermMemoryModes == {"static_control", "agent_control", "both"}

\* no long_term_memory configured; the mode defaults to 'both'
NoLongTermMemory == Gateway(FALSE, "both", FALSE)

staticControl ==
  longTermMemory.present /\ longTermMemory.mode \in {"static_control", "both"}
agentControl ==
  longTermMemory.present /\ longTermMemory.mode \in {"agent_control", "both"}

\* SimpleLongTermMemory.retrieve: the entries found, '' when there is none
retrieve == IF longTermMemory.stored THEN "info" ELSE ""

\* the user message reply builds from what retrieve returned
RetrievedMsg(info) ==
  Message("long_term_memory", Plain("<long_term_memory>" \o info),
          "user", EmptyObj)

\* reply, before the loop: the input is added to memory, then in static
\* control what the gateway retrieved, when it retrieved anything
MemoryAtStart ==
  IF staticControl /\ retrieve # ""
  THEN memory \o <<UserMsg, RetrievedMsg(retrieve)>>
  ELSE Append(memory, UserMsg)
GatewayAtStart ==
  [longTermMemory EXCEPT
     !.retrieved = IF staticControl THEN 1 ELSE 0,
     !.recorded = 0, !.toolRetrieved = 0, !.toolRecorded = 0,
     !.transcript = <<>>]

\* reply, after the loop: in static control the gateway records the input,
\* the memory and the reply
record(reply) ==
  IF staticControl
  THEN [longTermMemory EXCEPT
          !.recorded = @ + 1, !.stored = TRUE,
          !.transcript = <<UserMsg>> \o memory \o <<reply>>]
  ELSE longTermMemory

\* the first next() on the generator of a gateway tool runs its body:
\* retrieveFromMemory calls retrieve, recordToMemory calls record
GatewayAfterNext(task) ==
  IF ~task.called \/ Len(task.results) > 0 THEN longTermMemory
  ELSE IF task.call.name = "retrieve_from_memory"
  THEN [longTermMemory EXCEPT !.toolRetrieved = @ + 1]
  ELSE IF task.call.name = "record_to_memory"
  THEN [longTermMemory EXCEPT !.toolRecorded = @ + 1, !.stored = TRUE]
  ELSE longTermMemory

\* the first next() on the generator of the meta tool runs its body, which
\* calls resetEquippedTools
EquippedAfterNext(task) ==
  IF task.gen.plan = ResetPlan /\ Len(task.results) = 0
  THEN ResetTo(task.gen.args[1].items) ELSE equippedTools

\* setupToolkit: in agent control the two gateway tools are registered,
\* with the schema extractFunctionMetadata reads from a bound function
\* and with enable_meta_tool the tool reset_equipped_tools
setupToolkit(gateway, enableMetaTool) ==
  LET gatewayTools ==
        IF gateway.present /\ gateway.mode \in {"agent_control", "both"}
        THEN {"record_to_memory", "retrieve_from_memory"} ELSE {}
      metaTools == IF enableMetaTool THEN {"reset_equipped_tools"} ELSE {}
  IN [n \in DOMAIN InitialTools \cup gatewayTools \cup metaTools |->
        IF n \in DOMAIN InitialTools THEN InitialTools[n]
        ELSE IF n \in gatewayTools THEN ToolMetadata(<<>>, <<>>, "gateway")
        ELSE ToolMetadata(<<"toolNames">>, <<"toolNames">>, "reset")]

\* mutant: the loop bound off by one
LoopContinuesInclusive(it) == it <= maxIters

\* for (let iteration = 0; iteration < this.maxIters; iteration++)
LoopContinues(it) == it < maxIters

\* await Promise.all(actingPromises)
AllSettled == \A i \in 1..Len(tasks) : tasks[i].pc = "done"

\* for (const promise of actingPromises) actingResponses.push(await promise)
RECURSIVE AwaitedInOrder(_)
AwaitedInOrder(k) ==
  IF k > Len(tasks) THEN TRUE
  ELSE tasks[k].pc = "done" /\ AwaitedInOrder(k + 1)

\* mutant: reply goes on as soon as the first acting response is in
FirstResponseReady == tasks[1].pc = "done"

ActingResponsesReady ==
  IF parallelToolCalls THEN AllSettled ELSE AwaitedInOrder(1)

\* mutant: the last non-null acting response wins
RECURSIVE LastReply(_)
LastReply(responses) ==
  IF responses = <<>> THEN Null
  ELSE IF responses[Len(responses)] # Null THEN responses[Len(responses)]
  ELSE LastReply(SubSeq(responses, 1, Len(responses) - 1))

\* the first non-null acting response, in request order
RECURSIVE FirstReply(_)
FirstReply(responses) ==
  IF responses = <<>> THEN Null
  ELSE IF Head(responses) # Null THEN Head(responses)
  ELSE FirstReply(Tail(responses))

ActingResponses == [i \in 1..Len(tasks) |-> tasks[i].responseMsg]

NoOut == [stream |-> FALSE, chunks |-> <<>>]

\* observations of the current call: model calls of reasoning and
\* summarizing, callToolFunction calls of the current iteration, tool_use
\* blocks emitted by the model, successful completion results seen by
\* acting, what made reply raise, and the last model response
ZeroStats ==
  [reasonings |-> 0, summarizings |-> 0, invocations |-> 0, requests |-> 0,
   completions |-> 0, raisedBy |-> "none", lastOut |-> NoOut]

IsCompletion(task, chunk) ==
  task.call.name = finishFunctionName /\ chunk.metadata.success

EffectiveMaxIters(cfg) == IF cfg = 0 THEN DefaultMaxIters ELSE cfg

\* no top-level call made yet, interrupt() not called
NoCaller ==
  [entry |-> "none", calls |-> 0, interruptPending |-> FALSE,
   afterInterrupt |-> FALSE]

\* a top-level call begins through `entry`: reply or __call__
Enter(entry) ==
  [entry |-> entry, calls |-> caller.calls + 1, interruptPending |-> FALSE,
   afterInterrupt |-> caller.interruptPending]

\* the hook stores of a new agent: the HookStorage objects of
\* AgentBase.classHooks and instanceHooks by hook type, and the Maps of
\* ReActAgentBase for reasoning and acting; every store is empty and no
\* registration was refused
HookStores ==
  {"pre_reply", "post_reply", "pre_print", "post_print",
   "pre_observe", "post_observe",
   "pre_reasoning", "post_reasoning", "pre_acting", "post_acting",
   "reasoning", "acting"}
NoHooks ==
  [class |-> [st \in HookStores |-> <<>>],
   instance |-> [st \in HookStores |-> <<>>],
   registered |-> <<>>,
   refused |-> {}]
NoDispatch ==
  [point |-> "none", pc |-> "idle", value |-> Undefined,
   stepArgs |-> <<>>, stepRan |-> FALSE, trace |-> <<>>, aborted |-> FALSE]

\* the agent after construction with max_iters = cfg, the long-term
\* memory `gateway` and enable_meta_tool = enableMetaTool
ConstructedFrom(cfg, gateway, enableMetaTool) ==
  /\ config = cfg
  /\ longTermMemory = gateway
  /\ parallelToolCalls \in BOOLEAN
  /\ maxIters = EffectiveMaxIters(cfg)
  /\ tools = setupToolkit(gateway, enableMetaTool)
  /\ equippedTools = DOMAIN setupToolkit(gateway, enableMetaTool) \ {"hidden"}
  /\ requiredStructuredModel = NoContract
  /\ memory = <<>>
  /\ pc = "idle"
  /\ iteration = 0
  /\ replyMsg = Null
  /\ tasks = <<>>
  /\ stats = ZeroStats
  /\ replyTask = Null
  /\ caller = NoCaller
  /\ hooks = NoHooks
  /\ dispatch = NoDispatch

\* the agent built without the meta tool
ConstructedWith(cfg, gateway) == ConstructedFrom(cfg, gateway, FALSE)

\* the agent built without long-term memory
Constructed(cfg) == ConstructedWith(cfg, NoLongTermMemory)

Init == \E cfg \in 1..MaxK : Constructed(cfg)

\* reply(msg, structuredModel) up to the loop
ReplyStart(contract) ==
  /\ pc = "idle"
  /\ memory' = MemoryAtStart
  /\ longTermMemory' = GatewayAtStart
  /\ requiredStructuredModel' = contract
  /\ tools' = IF contract # NoContract /\ finishFunctionName \in DOMAIN tools
              THEN [tools EXCEPT ![finishFunctionName].extendedModel = contract]
              ELSE tools
  /\ replyMsg' = Null
  /\ iteration' = 0
  /\ pc' = IF LoopContinues(0) THEN "reasoning" ELSE "summarizing"
  /\ stats' = ZeroStats
  /\ UNCHANGED <<hookVars, replyTask, config, parallelToolCalls, maxIters,
                 equippedTools, tasks>>

\* reply called directly by the caller
Reply(contract) ==
  /\ ReplyStart(contract)
  /\ caller' = Enter("reply")

\* reasoningWithHooks, then the acting promises are created
Reasoning(out) ==
  /\ pc = "reasoning"
  /\ \E msg \in {ReasoningMessage(out, iteration)} :
     LET toolCalls == getToolUseBlocks(msg)
     IN /\ memory' = Append(memory, msg)
        /\ tasks' = [i \in 1..Len(toolCalls) |-> NewTask(toolCalls[i])]
        /\ pc' = IF Len(toolCalls) = 0 THEN "summarizing" ELSE "acting"
  /\ stats' = [stats EXCEPT !.reasonings = @ + 1, !.invocations = 0,
                            !.requests = @ + CountToolUse(out),
                            !.lastOut = out]
  /\ UNCHANGED <<hookVars, callVars, longTermMemory, config, parallelToolCalls, maxIters, tools, equippedTools,
                 requiredStructuredModel, iteration, replyMsg>>

\* model.call rejects inside reasoning or summarizing
ModelCallFails ==
  /\ pc \in {"reasoning", "summarizing"}
  /\ pc' = "raised"
  /\ stats' = [stats EXCEPT !.raisedBy = "model"]
  /\ UNCHANGED <<hookVars, callVars, longTermMemory, config, parallelToolCalls, maxIters, tools, equippedTools,
                 requiredStructuredModel, memory, iteration, replyMsg, tasks>>

\* acting up to and including await toolkit.callToolFunction(toolCall)
ActInvoke(i, plan) ==
  /\ pc = "acting"
  /\ tasks[i].pc = "start"
  /\ LET r == callToolFunction(tasks[i].call, plan)
     IN tasks' = [tasks EXCEPT ![i] =
                    [@ EXCEPT !.pc = "drain", !.gen = r.gen,
                              !.called = r.called, !.args = r.args]]
  /\ stats' = [stats EXCEPT !.invocations = @ + 1]
  /\ UNCHANGED <<hookVars, callVars, longTermMemory, config, parallelToolCalls, maxIters, tools, equippedTools,
                 requiredStructuredModel, memory, pc, iteration, replyMsg>>

\* mutant: the tool result message is added to memory at every result
ActNextLogEachResult(i) ==
  /\ pc = "acting"
  /\ tasks[i].pc = "drain"
  /\ LET t == tasks[i]
         step == GenNext(t.gen, Len(t.results), requiredStructuredModel)
     IN IF step.kind = "yield"
        THEN /\ tasks' = [tasks EXCEPT ![i] = OnChunk(t, step.chunk)]
             /\ stats' = IF IsCompletion(t, step.chunk)
                          THEN [stats EXCEPT !.completions = @ + 1]
                          ELSE stats
             /\ memory' = Append(memory,
                             ToolResultMessage(OnChunk(t, step.chunk)))
        ELSE LET done == IF step.kind = "throw" THEN ActingCatch(t) ELSE t
             IN /\ tasks' = [tasks EXCEPT ![i] = [done EXCEPT !.pc = "done"]]
                /\ memory' = Append(memory, ToolResultMessage(done))
                /\ UNCHANGED stats
  /\ longTermMemory' = GatewayAfterNext(tasks[i])
  /\ equippedTools' = EquippedAfterNext(tasks[i])
  /\ UNCHANGED <<hookVars, callVars, config, parallelToolCalls, maxIters,
                 tools, requiredStructuredModel, pc, iteration, replyMsg>>

\* mutant: the results of an iteration are kept in the log in request order
ActNextLogsInRequestOrder(i) ==
  /\ pc = "acting"
  /\ tasks[i].pc = "drain"
  /\ LET t == tasks[i]
         step == GenNext(t.gen, Len(t.results), requiredStructuredModel)
         IsDone(task) == task.pc = "done"
     IN IF step.kind = "yield"
        THEN /\ tasks' = [tasks EXCEPT ![i] = OnChunk(t, step.chunk)]
             /\ stats' = IF IsCompletion(t, step.chunk)
                          THEN [stats EXCEPT !.completions = @ + 1]
                          ELSE stats
             /\ UNCHANGED memory
        ELSE LET done == IF step.kind = "throw" THEN ActingCatch(t) ELSE t
                 logged == SelectSeq(tasks, IsDone)
                 finished == SelectSeq(tasks', IsDone)
             IN /\ tasks' = [tasks EXCEPT ![i] = [done EXCEPT !.pc = "done"]]
                /\ memory' = SubSeq(memory, 1, Len(memory) - Len(logged)) \o
                             [n \in 1..Len(finished) |->
                                ToolResultMessage(finished[n])]
                /\ UNCHANGED stats
  /\ longTermMemory' = GatewayAfterNext(tasks[i])
  /\ equippedTools' = EquippedAfterNext(tasks[i])
  /\ UNCHANGED <<hookVars, callVars, config, parallelToolCalls, maxIters,
                 tools, requiredStructuredModel, pc, iteration, replyMsg>>

\* acting, one round of for await: a result, the end, or a throw; the
\* tool result message is added to memory when the sequence is over
ActNext(i) ==
  /\ pc = "acting"
  /\ tasks[i].pc = "drain"
  /\ LET t == tasks[i]
         step == GenNext(t.gen, Len(t.results), requiredStructuredModel)
     IN IF step.kind = "yield"
        THEN /\ tasks' = [tasks EXCEPT ![i] = OnChunk(t, step.chunk)]
             /\ stats' = IF IsCompletion(t, step.chunk)
                          THEN [stats EXCEPT !.completions = @ + 1]
                          ELSE stats
             /\ UNCHANGED memory
        ELSE LET done == IF step.kind = "throw" THEN ActingCatch(t) ELSE t
             IN /\ tasks' = [tasks EXCEPT ![i] = [done EXCEPT !.pc = "done"]]
                /\ memory' = Append(memory, ToolResultMessage(done))
                /\ UNCHANGED stats
  /\ longTermMemory' = GatewayAfterNext(tasks[i])
  /\ equippedTools' = EquippedAfterNext(tasks[i])
  /\ UNCHANGED <<hookVars, callVars, config, parallelToolCalls, maxIters,
                 tools, requiredStructuredModel, pc, iteration, replyMsg>>

\* mutant: the reply of a completion action is returned without being logged
ScanReturnsUnlogged ==
  /\ pc = "acting"
  /\ ActingResponsesReady
  /\ LET first == FirstReply(ActingResponses)
     IN IF first # Null
        THEN /\ replyMsg' = first
             /\ pc' = "returned"
             /\ UNCHANGED <<iteration, memory>>
        ELSE /\ iteration' = iteration + 1
             /\ pc' = IF LoopContinues(iteration + 1)
                      THEN "reasoning" ELSE "summarizing"
             /\ UNCHANGED <<replyMsg, memory>>
  /\ UNCHANGED <<hookVars, callVars, longTermMemory, config,
                 parallelToolCalls, maxIters, tools, equippedTools,
                 requiredStructuredModel, tasks, stats>>

\* mutant: reply leaves the acting step only with a final reply
ScanWaitsForReply ==
  /\ pc = "acting"
  /\ ActingResponsesReady
  /\ FirstReply(ActingResponses) # Null
  /\ replyMsg' = FirstReply(ActingResponses)
  /\ longTermMemory' = record(replyMsg')
  /\ memory' = Append(memory, replyMsg')
  /\ pc' = "returned"
  /\ UNCHANGED <<hookVars, callVars, config, parallelToolCalls, maxIters,
                 tools, equippedTools, requiredStructuredModel, tasks,
                 iteration, stats>>

\* reply after the acting responses are in: adopt the first reply and
\* return it, or go round the loop
Scan ==
  /\ pc = "acting"
  /\ ActingResponsesReady
  /\ LET first == FirstReply(ActingResponses)
     IN IF \E i \in 1..Len(tasks) : tasks[i].rejected
        THEN /\ pc' = "raised"
             /\ stats' = [stats EXCEPT !.raisedBy = "acting"]
             /\ UNCHANGED <<replyMsg, memory, iteration, longTermMemory>>
        ELSE IF first # Null
        THEN /\ replyMsg' = first
             /\ longTermMemory' = record(first)
             /\ memory' = Append(memory, first)
             /\ pc' = "returned"
             /\ UNCHANGED <<iteration, stats>>
        ELSE /\ iteration' = iteration + 1
             /\ pc' = IF LoopContinues(iteration + 1)
                      THEN "reasoning" ELSE "summarizing"
             /\ UNCHANGED <<replyMsg, memory, stats, longTermMemory>>
  /\ UNCHANGED <<hookVars, callVars, config, parallelToolCalls, maxIters,
                 tools, equippedTools, requiredStructuredModel, tasks>>

\* mutant: the reply replaces the log instead of being appended to it
SummarizingRewritesLog(out) ==
  /\ pc = "summarizing"
  /\ replyMsg' = AggregateSummary(out)
  /\ longTermMemory' = record(replyMsg')
  /\ memory' = <<replyMsg'>>
  /\ pc' = "returned"
  /\ stats' = [stats EXCEPT !.summarizings = @ + 1, !.lastOut = out]
  /\ UNCHANGED <<hookVars, callVars, config, parallelToolCalls, maxIters,
                 tools, equippedTools, requiredStructuredModel, iteration,
                 tasks>>

\* summarizing, and the end of reply
Summarizing(out) ==
  /\ pc = "summarizing"
  /\ replyMsg' = AggregateSummary(out)
  /\ longTermMemory' = record(replyMsg')
  /\ memory' = Append(memory, replyMsg')
  /\ pc' = "returned"
  /\ stats' = [stats EXCEPT !.summarizings = @ + 1, !.lastOut = out]
  /\ UNCHANGED <<hookVars, callVars, config, parallelToolCalls, maxIters,
                 tools, equippedTools, requiredStructuredModel, iteration,
                 tasks>>

Next ==
  \/ \E c \in Contracts : Reply(c)
  \/ \E out \in ModelOutputs(iteration, MaxRequests - stats.requests) :
        Reasoning(out)
  \/ ModelCallFails
  \/ \E i \in 1..Len(tasks) : \E plan \in PlansFor(tasks[i].call) :
        ActInvoke(i, plan)
  \/ \E i \in 1..Len(tasks) : ActNext(i)
  \/ Scan
  \/ \E out \in SummaryOutputs : Summarizing(out)

Spec == Init /\ [][Next]_vars

\* ------------------------------------------------------- reading the state
\* acting saw a successful result of the completion action for this task
Succeeded(t) ==
  \E j \in 1..Len(t.results) : IsCompletion(t, t.results[j])

\* the reply message carried by the last successful completion result
ReplyOf(t) ==
  LET j == CHOOSE j \in 1..Len(t.results) :
             /\ IsCompletion(t, t.results[j])
             /\ \A m \in (j + 1)..Len(t.results) : ~IsCompletion(t, t.results[m])
  IN t.results[j].metadata.response_msg

IsToolResultOf(msg, id) ==
  /\ msg.content.tag = "array"
  /\ Len(msg.content.blocks) = 1
  /\ msg.content.blocks[1].type = "tool_result"
  /\ msg.content.blocks[1].id = id

\* positions of the log holding the tool result of request `id`
ResultPositions(id) ==
  {n \in 1..Len(memory) : IsToolResultOf(memory[n], id)}

\* the acting step of the current iteration is over
ActingOver ==
  pc \in {"reasoning", "summarizing", "returned"} /\ Len(tasks) > 0

\* ------------------------------------------------------------------ claims

\* C1: a reply call in which no completion action succeeded performs
\* exactly maxIters reasoning/acting iterations, then exactly one
\* summarizing model call, and returns the summarizing output.
C1_KIterationsThenSummary ==
  /\ pc = "summarizing" =>
        stats.reasonings = maxIters /\ stats.summarizings = 0
  /\ (pc = "returned" /\ stats.completions = 0) =>
        /\ stats.reasonings = maxIters
        /\ iteration = maxIters
        /\ stats.summarizings = 1
        /\ replyMsg.content = Blocks(FinalPayload(stats.lastOut))

C1_Witness ==
  /\ pc = "returned"
  /\ stats.completions = 0
  /\ maxIters > 1
  /\ stats.reasonings = maxIters
  /\ stats.summarizings = 1

\* C2: with parallel execution, when the acting step of an iteration is
\* over callToolFunction has been called once per request, every request
\* is finished, and the reply adopted is that of the first request in
\* request order whose completion succeeded; without one the loop goes on.
C2_ParallelFirstCompletionWins ==
  (parallelToolCalls /\ ActingOver) =>
     /\ stats.invocations = Len(tasks)
     /\ \A i \in 1..Len(tasks) :
          tasks[i].pc = "done" /\ tasks[i].gen.kind # "none"
     /\ \A i \in 1..Len(tasks) :
          (Succeeded(tasks[i]) /\ \A j \in 1..(i - 1) : ~Succeeded(tasks[j]))
            => /\ pc = "returned"
               /\ stats.summarizings = 0
               /\ replyMsg = ReplyOf(tasks[i])
     /\ (\A i \in 1..Len(tasks) : ~Succeeded(tasks[i]))
          => (pc = "returned" => stats.summarizings = 1)

\* two completions succeed, the second finishes first, the first is adopted
C2_Witness ==
  /\ parallelToolCalls
  /\ pc = "returned"
  /\ Len(tasks) = 2
  /\ Succeeded(tasks[1]) /\ Succeeded(tasks[2])
  /\ \E a \in ResultPositions(tasks[1].call.id) :
       \E b \in ResultPositions(tasks[2].call.id) : b < a
  /\ replyMsg = ReplyOf(tasks[1])
  /\ replyMsg # ReplyOf(tasks[2])

\* the text of the payload the model finally reports
ModelText(out) ==
  LET tb == SelectSeq(FinalPayload(out), IsTextBlock)
  IN JoinLines([i \in 1..Len(tb) |-> tb[i].text])

OutputHasNoToolUse(out) ==
  \A c \in 1..Len(out.chunks) : Len(SelectSeq(out.chunks[c], IsToolUse)) = 0

\* C3: a reasoning step whose model output holds no tool_use block yields
\* an assistant message holding exactly one tool_use block, for
\* generate_response, whose only argument response is the model's text.
C3_SynthesizedCompletion ==
  (/\ pc = "acting"
   /\ OutputHasNoToolUse(stats.lastOut)
   /\ \A i \in 1..Len(tasks) : tasks[i].pc = "start")
  => LET msg == memory[Len(memory)]
     IN /\ msg.role = "assistant"
        /\ msg.content.tag = "array"
        /\ Len(msg.content.blocks) = 1
        /\ msg.content.blocks[1].type = "tool_use"
        /\ msg.content.blocks[1].name = finishFunctionName
        /\ msg.content.blocks[1].input =
             [response |-> Str(ModelText(stats.lastOut))]

\* C4: without a structured-output contract, a call whose model answers
\* with plain text performs one reasoning iteration, executes the
\* synthesized completion, makes no summarizing call and returns the
\* model's text.
C4_PlainTextEndToEnd ==
  (/\ requiredStructuredModel = NoContract
   /\ stats.reasonings >= 1
   /\ stats.requests = 0)
  => /\ stats.reasonings = 1
     /\ stats.summarizings = 0
     /\ pc \in {"acting", "returned"}
     /\ pc = "returned" =>
          /\ stats.invocations = 1
          /\ tasks[1].called
          /\ getTextContent(replyMsg) = ModelText(stats.lastOut)

\* C5: with parallel execution disabled, action j is not invoked before
\* every earlier action of the iteration has finished and logged its result.
C5_SequentialInOrder ==
  ~parallelToolCalls =>
     \A i \in 1..Len(tasks) : \A j \in 1..Len(tasks) :
        (i < j /\ tasks[j].pc # "start") => tasks[i].pc = "done"

\* C6: with a structured-output contract, a completion request whose
\* arguments violate the contract gets no successful result and no reply.
C6_ContractViolationFails ==
  \A i \in 1..Len(tasks) :
     (/\ tasks[i].call.name = finishFunctionName
      /\ requiredStructuredModel # NoContract
      /\ ~Parse(requiredStructuredModel, tasks[i].call.input).ok)
     => (~Succeeded(tasks[i]) /\ tasks[i].responseMsg = Null)

\* C7: with a structured-output contract, a finished completion request
\* whose arguments satisfy the contract has succeeded, and its reply
\* carries the validated data of those arguments as metadata.
C7_ValidRequestSucceeds ==
  \A i \in 1..Len(tasks) :
     (/\ tasks[i].call.name = finishFunctionName
      /\ tasks[i].pc = "done"
      /\ requiredStructuredModel # NoContract
      /\ "response" \in DOMAIN tasks[i].call.input
      /\ Parse(requiredStructuredModel, tasks[i].call.input).ok)
     => /\ Succeeded(tasks[i])
        /\ ReplyOf(tasks[i]).metadata =
             Parse(requiredStructuredModel, tasks[i].call.input).data

Resolvable(name) == name \in equippedTools /\ name \in DOMAIN tools

MissingRequired(t) ==
  {r \in {tools[t.call.name].required[k] :
             k \in 1..Len(tools[t.call.name].required)} :
     ~(r \in DOMAIN t.call.input)}

\* C8: calling an equipped tool without one of its required parameters
\* does not raise and does not call the implementation; it yields one
\* terminal result with an error text and success = false. When the
\* implementation is called, a parameter missing from the request is
\* passed as undefined at its schema position.
C8_MissingRequiredFailsSoft ==
  \A i \in 1..Len(tasks) :
     LET t == tasks[i]
     IN (t.pc # "start" /\ Resolvable(t.call.name)) =>
        /\ MissingRequired(t) # {} =>
             /\ ~t.called
             /\ ~t.rejected
             /\ stats.raisedBy # "acting"
             /\ t.pc = "done" =>
                  /\ Len(t.results) = 1
                  /\ ~t.results[1].metadata.success
                  /\ t.results[1].is_last
                  /\ \E r \in MissingRequired(t) :
                       t.results[1] =
                         createErrorResponse("execution failed: missing " \o r)
                  /\ t.responseMsg = Null
        /\ MissingRequired(t) = {} => t.called
        /\ t.called =>
             LET props == tools[t.call.name].properties
             IN /\ Len(t.args) = Len(props)
                /\ \A k \in 1..Len(props) :
                     t.args[k] = IF props[k] \in DOMAIN t.call.input
                                 THEN t.call.input[props[k]] ELSE Undefined

\* one request lacks a required parameter, the other an optional one
C8_Witness ==
  /\ Len(tasks) = 2
  /\ tasks[1].call.name = "echo" /\ tasks[1].pc = "done"
  /\ MissingRequired(tasks[1]) = {"a"}
  /\ ~tasks[1].called
  /\ ~tasks[1].results[1].metadata.success
  /\ tasks[2].call.name = "echo" /\ tasks[2].called
  /\ ~("b" \in DOMAIN tasks[2].call.input)
  /\ tasks[2].args = <<Str("1"), Undefined>>

\* the tool implementation threw when called, or while being drained
ThrewOnCall(t) == t.called /\ t.gen.kind = "error"
ThrewInDrain(t) ==
  /\ t.gen.kind = "impl" /\ t.gen.plan.thenThrow
  /\ t.pc = "done"
Threw(t) == ThrewOnCall(t) \/ ThrewInDrain(t)

\* C9: a tool implementation that throws, when called or while drained,
\* never makes reply raise: its logged tool result carries an error text,
\* the other actions of the iteration finish, and without a completion
\* the loop goes on (to the next reasoning step, or to summarizing).
C9_ToolThrowIsContained ==
  /\ stats.raisedBy # "acting"
  /\ \A i \in 1..Len(tasks) :
       (Threw(tasks[i]) /\ tasks[i].pc = "done") =>
          /\ ~tasks[i].rejected
          /\ tasks[i].responseMsg = Null
          /\ Cardinality(ResultPositions(tasks[i].call.id)) = 1
          /\ \A n \in ResultPositions(tasks[i].call.id) :
               memory[n].content.blocks[1].output \in
                 {Str("error: execution failed: thrown"),
                  Str("tool call failed: thrown")}
  /\ (ActingOver /\ \E i \in 1..Len(tasks) : Threw(tasks[i])) =>
       /\ \A j \in 1..Len(tasks) : tasks[j].pc = "done"
       /\ (\A j \in 1..Len(tasks) : ~Succeeded(tasks[j])) =>
            \/ pc \in {"reasoning", "summarizing"}
            \/ pc = "returned" /\ stats.summarizings = 1

\* one tool threw while drained, one threw when called, the loop went on
C9_Witness ==
  /\ pc = "reasoning"
  /\ iteration = 1
  /\ Len(tasks) = 2
  /\ ThrewInDrain(tasks[1]) /\ Len(tasks[1].results) = 1
  /\ ThrewOnCall(tasks[2])
  /\ tasks[2].pc = "done"

\* C10: calling a name that is not registered, or not equipped, yields
\* exactly one result with is_last = true and success = false, without
\* raising and without calling an implementation; the action produces no
\* reply and does not abort the call.
C10_UnknownToolFailsOnlyItself ==
  /\ stats.raisedBy # "acting"
  /\ \A i \in 1..Len(tasks) :
       LET t == tasks[i]
       IN (t.pc # "start" /\ ~Resolvable(t.call.name)) =>
          /\ ~t.called
          /\ t.gen.kind = "error"
          /\ ~t.rejected
          /\ t.pc = "done" =>
               /\ Len(t.results) = 1
               /\ t.results[1].is_last
               /\ ~t.results[1].metadata.success
               /\ t.responseMsg = Null

\* an unregistered and an unequipped name fail in one iteration, and the
\* call goes on: a completion of the next iteration ends it
C10_Witness ==
  /\ pc = "returned"
  /\ stats.summarizings = 0
  /\ iteration = 1
  /\ Len(tasks) = 1
  /\ Succeeded(tasks[1])
  /\ \E a \in 1..Len(memory) : \E b \in 1..Len(memory) :
       /\ memory[a].content.tag = "array"
       /\ memory[b].content.tag = "array"
       /\ memory[a].content.blocks[1].type = "tool_result"
       /\ memory[b].content.blocks[1].type = "tool_result"
       /\ memory[a].content.blocks[1].name = "ghost"
       /\ memory[b].content.blocks[1].name = "hidden"
       /\ memory[a].content.blocks[1].output =
            Str("error: tool 'ghost' not equipped")
       /\ memory[b].content.blocks[1].output =
            Str("error: tool 'hidden' not equipped")

\* ------------------------------------------------- streamed model responses
\* a streamed tool call: the accumulated payload of every partial step
\* holds the call
RepeatedCallStreams(it) ==
  {Stream(<<(<<CallOf(kind, it, 1)>>), (<<CallOf(kind, it, 1)>>)>>) :
   kind \in {"FIN", "ECHO_A"}}

StreamOutputs(it) ==
  TextStreams \cup CallStreams(it, 1) \cup RepeatedCallStreams(it)

\* one reply call against a model called with stream: true
NextStream ==
  \/ \E c \in Contracts : Reply(c)
  \/ \E out \in StreamOutputs(iteration) : Reasoning(out)
  \/ \E i \in 1..Len(tasks) : \E plan \in PlansFor(tasks[i].call) :
        ActInvoke(i, plan)
  \/ \E i \in 1..Len(tasks) : ActNext(i)
  \/ Scan
  \/ \E out \in TextStreams : Summarizing(out)

SpecStream == Init /\ [][NextStream]_vars

\* the reasoning step has just built its message from the model response
ReasoningJustDone ==
  /\ pc = "acting"
  /\ \A i \in 1..Len(tasks) : tasks[i].pc = "start"

\* C16: the assistant message a reasoning step builds from a stream of
\* accumulated payloads equals the one it builds from a single complete
\* response carrying the last payload.
C16_StreamEqualsComplete ==
  (ReasoningJustDone /\ stats.lastOut.stream)
  => memory[Len(memory)] =
       ReasoningMessage(Complete(FinalPayload(stats.lastOut)), iteration)

\* s contains sub as a substring
Contains(s, sub) ==
  \E i \in 1..(Len(s) - Len(sub) + 1) : SubSeq(s, i, i + Len(sub) - 1) = sub

IsToolResult(msg) ==
  /\ msg.content.tag = "array"
  /\ Len(msg.content.blocks) = 1
  /\ msg.content.blocks[1].type = "tool_result"

\* C17: a task's tool result is not in the log while the task has not been
\* invoked or is still being drained, and is in the log exactly once when
\* the task is over, whether it succeeded, failed or threw; the log holds
\* no other tool result.
C17_OneResultAfterDrain ==
  /\ \A i \in 1..Len(tasks) :
       /\ tasks[i].pc \in {"start", "drain"} =>
            ResultPositions(tasks[i].call.id) = {}
       /\ tasks[i].pc = "done" =>
            /\ Cardinality(ResultPositions(tasks[i].call.id)) = 1
            /\ \A n \in ResultPositions(tasks[i].call.id) :
                 memory[n] = ToolResultMessage(tasks[i])
  /\ \A n \in 1..Len(memory) :
       (IsToolResult(memory[n]) /\ memory[n].content.blocks[1].id.it = iteration
        /\ pc = "acting")
       => \E i \in 1..Len(tasks) :
            tasks[i].pc = "done" /\ tasks[i].call.id = memory[n].content.blocks[1].id

\* one task has yielded a result and is still being drained, with nothing
\* logged for it; the other threw after one result and is logged once
C17_Witness ==
  /\ pc = "acting"
  /\ Len(tasks) = 2
  /\ tasks[1].pc = "drain" /\ Len(tasks[1].results) = 1
  /\ ResultPositions(tasks[1].call.id) = {}
  /\ tasks[2].pc = "done" /\ ThrewInDrain(tasks[2])
  /\ Len(tasks[2].results) = 1
  /\ Cardinality(ResultPositions(tasks[2].call.id)) = 1

\* C18: the logged output of a task whose tool yielded its results without
\* throwing contains the text of every result.
C18_OutputAccumulatesResults ==
  \A i \in 1..Len(tasks) :
     (tasks[i].pc = "done" /\ ~Threw(tasks[i])) =>
        \A n \in ResultPositions(tasks[i].call.id) :
           \A j \in 1..Len(tasks[i].results) :
              Contains(memory[n].content.blocks[1].output.val,
                       ChunkText(tasks[i].results[j]))

\* number of tool_use blocks with this id in the assistant messages logged
RequestCount(id) ==
  LET Uses(n) == {k \in 1..Len(getToolUseBlocks(memory[n])) :
                    getToolUseBlocks(memory[n])[k].id = id}
      Sum[n \in 0..Len(memory)] ==
        IF n = 0 THEN 0 ELSE Sum[n - 1] + Cardinality(Uses(n))
  IN Sum[Len(memory)]

\* C19: when the acting step of an iteration is over, every request of the
\* iteration has exactly one tool result with its id in the log, and every
\* logged tool result carries the id of exactly one request.
C19_ResultMatchesOneRequest ==
  ActingOver =>
     /\ \A i \in 1..Len(tasks) :
          Cardinality(ResultPositions(tasks[i].call.id)) = 1
     /\ \A n \in 1..Len(memory) :
          IsToolResult(memory[n]) =>
             RequestCount(memory[n].content.blocks[1].id) = 1

\* --------------------------------------------------- every configured bound
\* model responses that request one tool outside the equipped set
DefaultOutputs(it) ==
  {Complete(<<CallOf(kind, it, 1)>>) : kind \in {"GHOST", "HIDDEN"}}

\* the agent built with any max_iters from 0 up
InitDefault == \E cfg \in 0..MaxK : Constructed(cfg)

NextDefault ==
  \/ Reply(NoContract)
  \/ \E out \in DefaultOutputs(iteration) : Reasoning(out)
  \/ \E i \in 1..Len(tasks) : ActInvoke(i, NoPlan)
  \/ \E i \in 1..Len(tasks) : ActNext(i)
  \/ Scan
  \/ Summarizing(Complete(<<createTextBlock("x")>>))

SpecDefault == InitDefault /\ [][NextDefault]_vars

\* C20: in a reply call of an agent configured with max_iters = K >= 0 the
\* number of reasoning steps, and the iteration count, never exceed K.
C20_ReasoningsWithinBound ==
  /\ stats.reasonings <= config
  /\ iteration <= config

\* ------------------------------------------------ __call__ and interrupt()
\* the acknowledgement message of handleInterrupt
InterruptAck ==
  Message(AgentName, Plain("interrupted"), "assistant", EmptyObj)

\* __call__(msg) without a structured model and without registered hooks:
\* applyPreHooks returns a copy of the arguments and reply is called with it
Call ==
  /\ ReplyStart(NoContract)
  /\ caller' = Enter("__call__")

\* __call__, catch block: whatever reply raised is logged and replaced by
\* the result of handleInterrupt, which adds its message to memory
CallCatch ==
  /\ pc = "raised"
  /\ caller.entry = "__call__"
  /\ replyMsg' = InterruptAck
  /\ memory' = Append(memory, InterruptAck)
  /\ pc' = "returned"
  /\ replyTask' = Null
  /\ UNCHANGED <<hookVars, caller, longTermMemory, config, parallelToolCalls, maxIters,
                 tools, equippedTools, requiredStructuredModel, iteration,
                 tasks, stats>>

\* interrupt(): clears replyTask when one is set
Interrupt ==
  /\ ~caller.interruptPending
  /\ replyTask' = IF replyTask # Null THEN Null ELSE replyTask
  /\ caller' = [caller EXCEPT !.interruptPending = TRUE]
  /\ UNCHANGED <<hookVars, agentVars>>

\* the top-level call is over (it returned, or reply raised to its caller)
\* and the agent is ready for the next one
Return ==
  /\ \/ pc = "returned"
     \/ pc = "raised" /\ caller.entry = "reply"
  /\ caller.calls < MaxCalls
  /\ pc' = "idle"
  /\ tasks' = <<>>
  /\ UNCHANGED <<hookVars, callVars, longTermMemory, config, parallelToolCalls, maxIters,
                 tools, equippedTools, requiredStructuredModel, memory,
                 iteration, replyMsg, stats>>

CallerOutputs(it) ==
  {Complete(<<createTextBlock("x")>>), Complete(<<CallOf("ECHO_A", it, 1)>>)}

NextCall ==
  \/ Reply(NoContract)
  \/ Call
  \/ \E out \in CallerOutputs(iteration) : Reasoning(out)
  \/ ModelCallFails
  \/ CallCatch
  \/ \E i \in 1..Len(tasks) : \E plan \in PlansFor(tasks[i].call) :
        ActInvoke(i, plan)
  \/ \E i \in 1..Len(tasks) : ActNext(i)
  \/ Scan
  \/ Summarizing(Complete(<<createTextBlock("x")>>))
  \/ Interrupt
  \/ Return

SpecCall == Init /\ [][NextCall]_vars

\* C14: when the model call of a reasoning or summarizing step failed, the
\* error has reached the caller of the top-level call: the call has not
\* returned a message, it goes on with no further step, and no final
\* reply was produced.
C14_ModelFailureReachesCaller ==
  stats.raisedBy = "model" =>
     /\ pc \in {"raised", "idle"}
     /\ replyMsg = Null

\* C15: a top-level call that begins after interrupt() was called invokes
\* no model and returns the acknowledgement message.
C15_InterruptShortCircuitsNextCall ==
  caller.afterInterrupt =>
     /\ stats.reasonings = 0
     /\ stats.summarizings = 0
     /\ pc # "raised"
     /\ pc = "returned" => replyMsg = InterruptAck

\* ------------------------------------------------------------------- hooks
\* names under which hooks are registered, and what a hook does when called:
\* return nothing, return a replacement, or throw
HookNames == {"a", "b", "1"}
HookDoes == {"nothing", "replace", "throw"}
Hooks == [name : HookNames, does : HookDoes]

BaseHookTypes == {"pre_reply", "post_reply", "pre_print", "post_print"}
ObserveHookTypes == {"pre_observe", "post_observe"}
\* AgentBase.supportedHookTypes
supportedHookTypes == BaseHookTypes \cup ObserveHookTypes
ReActHookStores == {"reasoning", "acting"}
Points == {"reply", "print", "reasoning", "acting"}

\* the canonical array index a property name denotes, or -1
ArrayIndex(name) == IF name = "1" THEN 1 ELSE -1

PositionOf(store, name) ==
  IF \E i \in 1..Len(store) : store[i].name = name
  THEN CHOOSE i \in 1..Len(store) : store[i].name = name
  ELSE 0

\* hooks[hookName] = hook on a HookStorage object, as Object.entries then
\* lists it: integer-like keys first in ascending order, then the other
\* keys in the order they were created; an existing key keeps its place
ObjectSet(store, hook) ==
  LET at == PositionOf(store, hook.name)
      idx == ArrayIndex(hook.name)
      before == SelectSeq(store, LAMBDA e :
                  ArrayIndex(e.name) >= 0 /\ ArrayIndex(e.name) < idx)
      after == SelectSeq(store, LAMBDA e :
                  ~(ArrayIndex(e.name) >= 0 /\ ArrayIndex(e.name) < idx))
  IN IF at > 0 THEN [store EXCEPT ![at] = hook]
     ELSE IF idx >= 0 THEN before \o <<hook>> \o after
     ELSE Append(store, hook)

\* Map.set(hookName, hook): insertion order, an existing key keeps its place
MapSet(store, hook) ==
  LET at == PositionOf(store, hook.name)
  IN IF at > 0 THEN [store EXCEPT ![at] = hook] ELSE Append(store, hook)

\* the order of first registration, per scope and store
Registered(scope, st, hook) ==
  LET entry == [scope |-> scope, store |-> st, name |-> hook.name]
  IN IF \E i \in 1..Len(hooks.registered) : hooks.registered[i] = entry
     THEN hooks.registered
     ELSE Append(hooks.registered, entry)

CanRegister ==
  /\ dispatch.pc = "idle"
  /\ Len(hooks.registered) + Cardinality(hooks.refused) < MaxHooks

\* registerClassHook(className, hookType, hookName, hook) called on the
\* class of this agent, whose supportedHookTypes holds every hook type
registerClassHook(hookType, hook) ==
  /\ CanRegister
  /\ hooks' = [hooks EXCEPT
                 !.class[hookType] = ObjectSet(@, hook),
                 !.registered = Registered("class", hookType, hook)]
  /\ UNCHANGED <<agentVars, callVars, dispatch>>

\* registerInstanceHook(hookType, hookName, hook): throws unless hookType is
\* one of AgentBase.supportedHookTypes
registerInstanceHook(hookType, hook) ==
  /\ CanRegister
  /\ hooks' = IF hookType \in supportedHookTypes
              THEN [hooks EXCEPT
                      !.instance[hookType] = ObjectSet(@, hook),
                      !.registered = Registered("instance", hookType, hook)]
              ELSE [hooks EXCEPT
                      !.refused = @ \cup {[scope |-> "instance",
                                           store |-> hookType,
                                           name |-> hook.name]}]
  /\ UNCHANGED <<agentVars, callVars, dispatch>>

\* registerClassReasoningHook / registerClassActingHook
registerClassReActHook(st, hook) ==
  /\ CanRegister
  /\ hooks' = [hooks EXCEPT
                 !.class[st] = MapSet(@, hook),
                 !.registered = Registered("class", st, hook)]
  /\ UNCHANGED <<agentVars, callVars, dispatch>>

\* registerInstanceReasoningHook / registerInstanceActingHook
registerInstanceReActHook(st, hook) ==
  /\ CanRegister
  /\ hooks' = [hooks EXCEPT
                 !.instance[st] = MapSet(@, hook),
                 !.registered = Registered("instance", st, hook)]
  /\ UNCHANGED <<agentVars, callVars, dispatch>>

\* values held by an argument bag
Obj(proto, val) == [proto |-> proto, val |-> val]
Arr(items) == [proto |-> "Array", items |-> items]

\* the arguments the wrapped step of a point is called with
InitialArgs(point) ==
  IF point = "reply"
  THEN [msg |-> Obj("Message", "q"), structuredModel |-> Undefined]
  ELSE IF point = "print"
  THEN [msg |-> Obj("Message", "q"), last |-> Str("true")]
  ELSE IF point = "reasoning"
  THEN [args |-> Arr(<<>>)]
  ELSE [args |-> Arr(<<CallOf("ECHO_A", 0, 1)>>)]

\* deepClone: arrays and plain values are copied as they are, an instance
\* of a class becomes a plain object with the same own properties
CloneValue(v) ==
  IF "proto" \in DOMAIN v /\ v.proto = "Message"
  THEN [v EXCEPT !.proto = "Object"] ELSE v
deepClone(bag) == [k \in DOMAIN bag |-> CloneValue(bag[k])]

PreStore(point) ==
  IF point = "reply" THEN "pre_reply"
  ELSE IF point = "print" THEN "pre_print" ELSE point
PostStore(point) ==
  IF point = "reply" THEN "post_reply"
  ELSE IF point = "print" THEN "post_print" ELSE point

\* what a hook returns when it returns a replacement: a whole new argument
\* bag before the step, a new output after it
Replacement(hook, point, phase) ==
  IF phase = "post" THEN Obj("Object", hook.name)
  ELSE IF point \in {"reply", "print"}
  THEN [msg |-> Obj("Object", hook.name)]
  ELSE [args |-> Arr(<<Str(hook.name)>>)]

Returned(hook, point, phase) ==
  IF hook.does = "replace" THEN Replacement(hook, point, phase)
  ELSE IF hook.does = "null" THEN Null
  ELSE Undefined

\* whether the value a hook returned replaces the current one
Replaces(result, point, phase) ==
  IF phase = "post" /\ point = "acting" THEN result # Undefined
  ELSE result # Undefined /\ result # Null

Tagged(scope, store) ==
  [i \in 1..Len(store) |->
     [scope |-> scope, name |-> store[i].name, does |-> store[i].does]]

\* mutant: the instance-level hooks run before the class-level ones
HookChainInstanceFirst(st) ==
  Tagged("instance", hooks.instance[st]) \o Tagged("class", hooks.class[st])

\* the hooks of a store in the order apply*Hooks calls them
HookChain(st) ==
  Tagged("class", hooks.class[st]) \o Tagged("instance", hooks.instance[st])

\* mutant: no try/catch around the hook, a throw ends the chain
ApplyHookNoCatch(acc, hook, point, phase) ==
  LET result == Returned(hook, point, phase)
      entry == [scope |-> hook.scope, name |-> hook.name, phase |-> phase,
                received |-> acc.value, threw |-> hook.does = "throw"]
  IN [value |-> IF hook.does # "throw" /\ Replaces(result, point, phase)
                THEN result ELSE acc.value,
      trace |-> Append(acc.trace, entry),
      aborted |-> hook.does = "throw"]

\* one round of the loop over the hooks: the hook is called with the
\* current value; what it returns may replace it; a throw is caught
ApplyHook(acc, hook, point, phase) ==
  LET result == Returned(hook, point, phase)
      entry == [scope |-> hook.scope, name |-> hook.name, phase |-> phase,
                received |-> acc.value, threw |-> hook.does = "throw"]
  IN [value |-> IF hook.does # "throw" /\ Replaces(result, point, phase)
                THEN result ELSE acc.value,
      trace |-> Append(acc.trace, entry),
      aborted |-> FALSE]

RECURSIVE RunHooks(_, _, _, _)
RunHooks(chain, acc, point, phase) ==
  IF chain = <<>> \/ acc.aborted THEN acc
  ELSE RunHooks(Tail(chain), ApplyHook(acc, Head(chain), point, phase),
                point, phase)

GetArg(bag, key) == IF key \in DOMAIN bag THEN bag[key] ELSE Undefined

\* the positional arguments of the wrapped step, from the argument bag
StepArgs(point, bag) ==
  IF point = "reply"
  THEN <<GetArg(bag, "msg"), GetArg(bag, "structuredModel")>>
  ELSE IF point = "print"
  THEN <<GetArg(bag, "msg"), GetArg(bag, "last")>>
  ELSE bag.args.items

StepOutput(point) ==
  IF point = "print" THEN Null ELSE Obj("Message", "out")

\* apply the pre hooks of a point to a copy of the arguments
DispatchPre(point) ==
  /\ dispatch.pc = "idle"
  /\ LET r == RunHooks(HookChain(PreStore(point)),
                       [value |-> deepClone(InitialArgs(point)),
                        trace |-> <<>>, aborted |-> FALSE],
                       point, "pre")
     IN dispatch' = [point |-> point, pc |-> "step", value |-> r.value,
                     stepArgs |-> <<>>, stepRan |-> FALSE,
                     trace |-> r.trace, aborted |-> r.aborted]
  /\ UNCHANGED <<agentVars, callVars, hooks>>

\* the wrapped step: reply, doPrint, reasoning or acting
DispatchStep ==
  /\ dispatch.pc = "step"
  /\ ~dispatch.aborted
  /\ dispatch' = [dispatch EXCEPT
                    !.pc = "post",
                    !.stepArgs = StepArgs(dispatch.point, dispatch.value),
                    !.stepRan = TRUE,
                    !.value = StepOutput(dispatch.point)]
  /\ UNCHANGED <<agentVars, callVars, hooks>>

\* apply the post hooks of the point to the output of the step
DispatchPost ==
  /\ dispatch.pc = "post"
  /\ LET r == RunHooks(HookChain(PostStore(dispatch.point)),
                       [value |-> dispatch.value, trace |-> dispatch.trace,
                        aborted |-> FALSE],
                       dispatch.point, "post")
     IN dispatch' = [dispatch EXCEPT
                       !.pc = "done", !.value = r.value, !.trace = r.trace,
                       !.aborted = r.aborted]
  /\ UNCHANGED <<agentVars, callVars, hooks>>

DispatchReturn ==
  /\ dispatch.pc = "done"
  /\ dispatch' = NoDispatch
  /\ UNCHANGED <<agentVars, callVars, hooks>>

InitHooks == Constructed(1)

NextHooks ==
  \/ \E hookType \in BaseHookTypes : \E hook \in Hooks :
        registerClassHook(hookType, hook)
  \/ \E hookType \in BaseHookTypes : \E hook \in Hooks :
        registerInstanceHook(hookType, hook)
  \/ \E st \in ReActHookStores : \E hook \in Hooks :
        registerClassReActHook(st, hook)
  \/ \E st \in ReActHookStores : \E hook \in Hooks :
        registerInstanceReActHook(st, hook)
  \/ \E point \in Points : DispatchPre(point)
  \/ DispatchStep
  \/ DispatchPost
  \/ DispatchReturn

SpecHooks == InitHooks /\ [][NextHooks]_vars

\* the hooks called so far in one phase of the dispatch
TraceOf(phase) == SelectSeq(dispatch.trace, LAMBDA e : e.phase = phase)

\* C11: in each phase of a dispatch, no instance-level hook is called
\* before a class-level hook, at the reply, print, reasoning and acting
\* points alike.
C11_ClassHooksFirst ==
  \A phase \in {"pre", "post"} :
     LET t == TraceOf(phase)
     IN \A i \in 1..Len(t) : \A j \in 1..Len(t) :
           (i < j) => ~(t[i].scope = "instance" /\ t[j].scope = "class")

\* the instance-level hook was registered first, the class-level hook of
\* the same store ran first
C11_Witness ==
  /\ dispatch.pc = "done"
  /\ Len(hooks.registered) = 2
  /\ hooks.registered[1].scope = "instance"
  /\ hooks.registered[2].scope = "class"
  /\ hooks.registered[1].store = hooks.registered[2].store
  /\ Len(dispatch.trace) = 2
  /\ dispatch.trace[1].scope = "class"
  /\ dispatch.trace[2].scope = "instance"
  /\ dispatch.trace[1].phase = dispatch.trace[2].phase

NamesOf(entries) == [i \in 1..Len(entries) |-> entries[i].name]

RegisteredNames(scope, st) ==
  NamesOf(SelectSeq(hooks.registered,
                    LAMBDA r : r.scope = scope /\ r.store = st))

CalledNames(scope, phase) ==
  NamesOf(SelectSeq(dispatch.trace,
                    LAMBDA e : e.scope = scope /\ e.phase = phase))

\* the value each hook of a phase must have received: the replacement
\* returned by the nearest earlier hook that returned one, else `first`
ReceivedInTurn(phase, first) ==
  LET t == TraceOf(phase)
      chain == HookChain(IF phase = "pre" THEN PreStore(dispatch.point)
                         ELSE PostStore(dispatch.point))
  IN /\ Len(t) = Len(chain)
     /\ \A i \in 1..Len(t) :
          t[i].received =
            IF \E k \in 1..(i - 1) : chain[k].does = "replace"
            THEN LET k == CHOOSE k \in 1..(i - 1) :
                            /\ chain[k].does = "replace"
                            /\ \A m \in (k + 1)..(i - 1) :
                                 chain[m].does # "replace"
                 IN Replacement(chain[k], dispatch.point, phase)
            ELSE first

\* the argument bag the pre hooks left
LeftByPreHooks ==
  LET chain == HookChain(PreStore(dispatch.point))
  IN IF \E k \in 1..Len(chain) : chain[k].does = "replace"
     THEN LET k == CHOOSE k \in 1..Len(chain) :
                     /\ chain[k].does = "replace"
                     /\ \A m \in (k + 1)..Len(chain) : chain[m].does # "replace"
          IN Replacement(chain[k], dispatch.point, "pre")
     ELSE deepClone(InitialArgs(dispatch.point))

\* C12: within one scope the hooks of a point are called in the order in
\* which they were registered; each receives the replacement returned by
\* the previous hook that returned one, whole; and the wrapped step is
\* executed with the argument bag left by the last hook.
C12_RegistrationOrderAndReplacement ==
  dispatch.pc \in {"step", "post", "done"} =>
     /\ \A scope \in {"class", "instance"} :
          CalledNames(scope, "pre") =
            RegisteredNames(scope, PreStore(dispatch.point))
     /\ ReceivedInTurn("pre", deepClone(InitialArgs(dispatch.point)))
     /\ dispatch.stepRan =>
          dispatch.stepArgs = StepArgs(dispatch.point, LeftByPreHooks)

\* C13: a hook that throws does not end the chain nor the operation: every
\* hook of the chain is called, the hook after a throwing one receives what
\* the throwing one received, and the wrapped step is executed.
C13_ThrowingHookIsContained ==
  /\ ~dispatch.aborted
  /\ dispatch.pc \in {"step", "post", "done"} =>
       /\ Len(TraceOf("pre")) = Len(HookChain(PreStore(dispatch.point)))
       /\ \A i \in 1..(Len(TraceOf("pre")) - 1) :
            TraceOf("pre")[i].threw =>
               TraceOf("pre")[i + 1].received = TraceOf("pre")[i].received
  /\ dispatch.pc = "done" =>
       /\ dispatch.stepRan
       /\ Len(TraceOf("post")) = Len(HookChain(PostStore(dispatch.point)))
       /\ \A i \in 1..(Len(TraceOf("post")) - 1) :
            TraceOf("post")[i].threw =>
               TraceOf("post")[i + 1].received = TraceOf("post")[i].received

\* the first hook of the chain threw, the second was still called with
\* the same arguments, and the wrapped step and the post hooks ran
C13_Witness ==
  /\ dispatch.pc = "done"
  /\ dispatch.stepRan
  /\ Len(TraceOf("pre")) = 2
  /\ TraceOf("pre")[1].threw
  /\ ~TraceOf("pre")[2].threw
  /\ TraceOf("pre")[2].received = deepClone(InitialArgs(dispatch.point))
  /\ dispatch.stepArgs = StepArgs(dispatch.point, LeftByPreHooks)

\* ------------------------------------------------------ the conversation log
IsToolUseMessage(msg) == msg.role = "assistant" /\ hasToolUse(msg)

\* C21: every step of a reply call leaves the log as it was or extends it:
\* the log before the step is a prefix of the log after it, so no entry is
\* removed or replaced.
C21_LogOnlyAppended ==
  [][/\ Len(memory') >= Len(memory)
     /\ SubSeq(memory', 1, Len(memory)) = memory]_vars

\* a call that went twice round the loop and was summarized: the log holds
\* the input, two assistant messages, their results and the reply
C21_Witness ==
  /\ pc = "returned"
  /\ stats.reasonings = 2
  /\ stats.summarizings = 1
  /\ Len(memory) >= 6
  /\ memory[1] = UserMsg
  /\ IsToolUseMessage(memory[2])
  /\ memory[Len(memory)] = replyMsg

\* ------------------------------------------- reply with a long-term memory
\* a request for one of the tools the gateway provides
GatewayCallOf(name, it, k) ==
  createToolUseBlock(name, [query |-> Str("q")], [it |-> it, k |-> k])

GatewayOutputs(it) ==
  {Complete(<<createTextBlock("x")>>),
   Complete(<<CallOf("ECHO_A", it, 1)>>),
   Complete(<<GatewayCallOf("retrieve_from_memory", it, 1)>>),
   Complete(<<GatewayCallOf("record_to_memory", it, 1)>>)}

\* the agent is given a gateway, empty or not, in one of the three modes
InitGateway ==
  \E cfg \in 1..MaxK : \E mode \in LongTermMemoryModes :
     \E stored \in BOOLEAN : ConstructedWith(cfg, Gateway(TRUE, mode, stored))

NextGateway ==
  \/ Reply(NoContract)
  \/ \E out \in GatewayOutputs(iteration) : Reasoning(out)
  \/ \E i \in 1..Len(tasks) : \E plan \in PlansFor(tasks[i].call) :
        ActInvoke(i, plan)
  \/ \E i \in 1..Len(tasks) : ActNext(i)
  \/ Scan
  \/ Summarizing(Complete(<<createTextBlock("x")>>))

SpecGateway == InitGateway /\ [][NextGateway]_vars

\* reads and writes of the gateway in the current reply call
GatewayReads == longTermMemory.retrieved + longTermMemory.toolRetrieved
GatewayWrites == longTermMemory.recorded + longTermMemory.toolRecorded

\* C22: in one reply call the gateway is read at most once and only before
\* the first reasoning step, and written at most once and only after the
\* loop has ended, in every long-term-memory mode.
C22_GatewayReadOnceWrittenOnce ==
  /\ GatewayReads <= 1
  /\ GatewayWrites <= 1
  /\ longTermMemory.toolRetrieved = 0
  /\ pc \in {"reasoning", "acting", "summarizing"} => GatewayWrites = 0

\* how often a message occurs in a transcript
Occurrences(msg, transcript) ==
  Cardinality({i \in 1..Len(transcript) : transcript[i] = msg})

\* C28: in static control, the transcript recorded at the end of a call
\* holds the input of the call exactly once and ends with the final reply.
C28_TranscriptHoldsInputOnce ==
  (staticControl /\ pc = "returned") =>
     /\ longTermMemory.recorded = 1
     /\ longTermMemory.transcript[Len(longTermMemory.transcript)] = replyMsg
     /\ Occurrences(UserMsg, longTermMemory.transcript) = 1

\* ------------------------------------------------- the equipped set is reset
\* getJsonSchemas: the tools offered to the model, the equipped names that
\* are registered
getJsonSchemas == {name \in equippedTools : name \in DOMAIN tools}

\* mutant: the tools left out of the equipped set are also unregistered
resetEquippedToolsUnregisters(toolNames) ==
  /\ pc = "idle"
  /\ toolNames \subseteq DOMAIN tools
  /\ equippedTools' = toolNames
  /\ tools' = [name \in toolNames |-> tools[name]]
  /\ UNCHANGED <<hookVars, callVars, longTermMemory, config,
                 parallelToolCalls, maxIters, requiredStructuredModel,
                 memory, pc, iteration, replyMsg, tasks, stats>>

\* Toolkit.resetEquippedTools(toolNames), called between two reply calls:
\* throws when a name is not registered, else the equipped set becomes
\* exactly the names given
resetEquippedTools(toolNames) ==
  /\ pc = "idle"
  /\ equippedTools' = ResetTo(toolNames)
  /\ UNCHANGED <<hookVars, callVars, longTermMemory, config,
                 parallelToolCalls, maxIters, tools,
                 requiredStructuredModel, memory, pc, iteration, replyMsg,
                 tasks, stats>>

ToolNames == {finishFunctionName, "echo", "hidden", "ghost"}

ToolkitOutputs(it) ==
  {Complete(<<CallOf(kind, it, 1)>>) : kind \in {"FIN", "ECHO_A", "HIDDEN"}}

NextToolkit ==
  \/ \E toolNames \in SUBSET ToolNames : resetEquippedTools(toolNames)
  \/ Reply(NoContract)
  \/ \E out \in ToolkitOutputs(iteration) : Reasoning(out)
  \/ \E i \in 1..Len(tasks) : \E plan \in PlansFor(tasks[i].call) :
        ActInvoke(i, plan)
  \/ \E i \in 1..Len(tasks) : ActNext(i)
  \/ Scan
  \/ Summarizing(Complete(<<createTextBlock("x")>>))
  \/ Return

SpecToolkit == Init /\ [][NextToolkit]_vars

\* the log holds at position n a tool result of tool `name` with this text
IsResultWith(n, name, text) ==
  /\ IsToolResult(memory[n])
  /\ memory[n].content.blocks[1].name = name
  /\ memory[n].content.blocks[1].output = Str(text)

\* C23: whatever resets were made, the registry is the one setupToolkit
\* built; a registered tool outside the equipped set is not offered to the
\* model and a request for it is answered with an error without calling
\* it; a request for an equipped tool calls it.
C23_ResetKeepsRegistrations ==
  /\ tools = InitialTools
  /\ \A name \in DOMAIN tools \ equippedTools : ~(name \in getJsonSchemas)
  /\ \A name \in equippedTools : name \in getJsonSchemas
  /\ \A i \in 1..Len(tasks) :
        tasks[i].pc \in {"drain", "done"} =>
           /\ tasks[i].called <=> tasks[i].call.name \in equippedTools
           /\ ~tasks[i].called =>
                 tasks[i].gen = createErrorGenerator(
                    "tool '" \o tasks[i].call.name \o "' not equipped")

\* `hidden` was requested while left out of the equipped set and answered
\* with an error; after a reset naming it, it was requested again, called
\* and its result logged
C23_Witness ==
  /\ "hidden" \in equippedTools
  /\ \E i \in 1..Len(tasks) :
        /\ tasks[i].call.name = "hidden"
        /\ tasks[i].called
        /\ tasks[i].pc = "done"
  /\ \E m, n \in 1..Len(memory) :
        /\ m < n
        /\ IsResultWith(m, "hidden", "error: tool 'hidden' not equipped")
        /\ IsResultWith(n, "hidden", "out1")

\* --------------------------- general registration on the ReAct hook types
ReActHookTypes ==
  {"pre_reasoning", "post_reasoning", "pre_acting", "post_acting"}

\* the hook type of a phase of a reasoning or acting step
HookTypeOf(phase, point) == phase \o "_" \o point

HookTypeHooks == [name : {"a", "b"}, does : {"nothing", "replace"}]

NextHookTypes ==
  \/ \E hookType \in ReActHookTypes : \E hook \in HookTypeHooks :
        registerClassHook(hookType, hook)
  \/ \E hookType \in ReActHookTypes : \E hook \in HookTypeHooks :
        registerInstanceHook(hookType, hook)
  \/ \E st \in ReActHookStores : \E hook \in HookTypeHooks :
        registerInstanceReActHook(st, hook)
  \/ \E point \in ReActHookStores : DispatchPre(point)
  \/ DispatchStep
  \/ DispatchPost
  \/ DispatchReturn

SpecHookTypes == InitHooks /\ [][NextHookTypes]_vars

\* the hook registered as `entry` was called in this phase of the dispatch
CalledIn(phase, entry) ==
  \E i \in 1..Len(dispatch.trace) :
     /\ dispatch.trace[i].phase = phase
     /\ dispatch.trace[i].scope = entry.scope
     /\ dispatch.trace[i].name = entry.name

\* C24: no registration of a hook on pre_reasoning, post_reasoning,
\* pre_acting or post_acting through registerInstanceHook or
\* registerClassHook is refused, and when a reasoning or acting step is over
\* every hook registered on its pre and post hook types was called in that
\* phase.
C24_GeneralRegistrationReachesPoint ==
  /\ hooks.refused = {}
  /\ dispatch.pc = "done" =>
        \A i \in 1..Len(hooks.registered) : \A phase \in {"pre", "post"} :
           hooks.registered[i].store = HookTypeOf(phase, dispatch.point)
              => CalledIn(phase, hooks.registered[i])

\* ------------------------------------------- reply with reasoning hooks
\* the message a replacing post-reasoning hook returns: text, no tool_use
HookMessage(name) ==
  Message(AgentName, Blocks(<<createTextBlock(name)>>), "assistant", EmptyObj)

\* reasoningWithHooks as reply sees it: reasoning adds its message to
\* memory, the post hooks may replace the message handed back to reply
\* (finalResult || result), and the acting promises are created from the
\* tool_use blocks of that message
ReasoningWithHooks(out) ==
  /\ pc = "reasoning"
  /\ LET msg == ReasoningMessage(out, iteration)
         post == RunHooks(HookChain("reasoning"),
                          [value |-> StepOutput("reasoning"),
                           trace |-> <<>>, aborted |-> FALSE],
                          "reasoning", "post")
         reasoningMsg == IF post.value = StepOutput("reasoning") THEN msg
                         ELSE HookMessage(post.value.val)
         toolCalls == getToolUseBlocks(reasoningMsg)
     IN /\ memory' = Append(memory, msg)
        /\ tasks' = [i \in 1..Len(toolCalls) |-> NewTask(toolCalls[i])]
        /\ pc' = IF Len(toolCalls) = 0 THEN "summarizing" ELSE "acting"
  /\ stats' = [stats EXCEPT !.reasonings = @ + 1, !.invocations = 0,
                            !.requests = @ + CountToolUse(out),
                            !.lastOut = out]
  /\ UNCHANGED <<hookVars, callVars, longTermMemory, config,
                 parallelToolCalls, maxIters, tools, equippedTools,
                 requiredStructuredModel, iteration, replyMsg>>

ReasoningHooks == [name : {"a"}, does : HookDoes]

NextReasoningHook ==
  \/ \E hook \in ReasoningHooks : registerInstanceReActHook("reasoning", hook)
  \/ Reply(NoContract)
  \/ \E out \in CallerOutputs(iteration) : ReasoningWithHooks(out)
  \/ \E i \in 1..Len(tasks) : \E plan \in PlansFor(tasks[i].call) :
        ActInvoke(i, plan)
  \/ \E i \in 1..Len(tasks) : ActNext(i)
  \/ Scan
  \/ Summarizing(Complete(<<createTextBlock("x")>>))

SpecReasoningHook == Init /\ [][NextReasoningHook]_vars

\* C25: the summarizing call is made, or about to be made, only when the
\* loop has gone through all maxIters iterations.
C25_SummarizingOnlyAfterKIterations ==
  (pc = "summarizing" \/ stats.summarizings > 0) =>
     /\ iteration = maxIters
     /\ stats.reasonings = maxIters

\* ------------------------------------------------------- after summarizing
\* C26: once the summarizing call has been made the reply call is over:
\* there was one summarizing call, the reasoning calls are those of the
\* loop, every acting task belongs to an iteration of the loop and none was
\* created from the summarizing output, and the final reply is that output
\* with the content the model gave, tool_use blocks included.
C26_SummaryAdoptedAsIs ==
  stats.summarizings > 0 =>
     /\ pc = "returned"
     /\ stats.summarizings = 1
     /\ stats.reasonings = maxIters
     /\ \A i \in 1..Len(tasks) :
           /\ tasks[i].call.id.it = maxIters - 1
           /\ tasks[i].pc = "done"
     /\ replyMsg = Message(AgentName, Blocks(FinalPayload(stats.lastOut)),
                           "assistant", EmptyObj)
     /\ memory[Len(memory)] = replyMsg

\* the summarizing output held a tool_use block and is the final reply
C26_Witness ==
  /\ stats.summarizings = 1
  /\ pc = "returned"
  /\ hasToolUse(replyMsg)
  /\ getToolUseBlocks(replyMsg)[1].name = "echo"

\* ---------------------------------------------------------- the final reply
\* C27: a reply call that has returned holds its final reply as the last
\* entry of the log and nowhere else in it, and that message is what it
\* returns; the reply comes from a completion action exactly when no
\* summarizing call was made, and once a completion action has succeeded
\* no summarizing call is made.
C27_OneFinalReplyLoggedLast ==
  /\ stats.completions > 0 => stats.summarizings = 0
  /\ pc = "returned" =>
        /\ replyMsg # Null
        /\ memory[Len(memory)] = replyMsg
        /\ Occurrences(replyMsg, memory) = 1
        /\ stats.summarizings = 0 <=> stats.completions > 0
        /\ stats.summarizings = 0 => replyMsg = FirstReply(ActingResponses)
        /\ stats.summarizings > 0 => stats.summarizings = 1

\* a call ended by a completion action in its second iteration
C27_Witness ==
  /\ pc = "returned"
  /\ stats.reasonings = 2
  /\ stats.completions > 0
  /\ replyMsg.content.tag = "string"
  /\ memory[Len(memory)] = replyMsg

\* ------------------------------------------------- order of the tool results
\* C29: with parallel execution, the step in which an action finishes
\* appends its tool result at the end of the log, so the results stand in
\* the log in the order the actions finished; and the step that ends the
\* acting step with a reply adopts the response of the first request, in
\* request order, that has one.
C29_ResultsInFinishOrder ==
  [][parallelToolCalls =>
       /\ (pc = "acting" /\ pc' = "acting") =>
             \A i \in 1..Len(tasks) :
                (tasks[i].pc # "done" /\ tasks'[i].pc = "done")
                   => memory' = Append(memory, ToolResultMessage(tasks'[i]))
       /\ (pc = "acting" /\ pc' = "returned") =>
             \E j \in 1..Len(tasks) :
                /\ tasks[j].responseMsg # Null
                /\ \A h \in 1..(j - 1) : tasks[h].responseMsg = Null
                /\ replyMsg' = tasks[j].responseMsg]_vars

\* the second request finished first: its result stands before the result
\* of the first request, and the reply is the response of the first request
C29_Witness ==
  /\ parallelToolCalls
  /\ pc = "returned"
  /\ Len(tasks) = 2
  /\ Len(memory) >= 4
  /\ IsToolResultOf(memory[Len(memory) - 2], tasks[2].call.id)
  /\ IsToolResultOf(memory[Len(memory) - 1], tasks[1].call.id)
  /\ tasks[2].responseMsg # Null
  /\ tasks[1].responseMsg # tasks[2].responseMsg
  /\ memory[Len(memory)] = tasks[1].responseMsg

\* ------------------------------------------------- one iteration of the loop
\* the assistant messages with tool_use blocks in the log
RequestMessages == SelectSeq(memory, IsToolUseMessage)

\* the tasks of the current iteration that are over
FinishedTasks == {i \in 1..Len(tasks) : tasks[i].pc = "done"}

\* the last n entries of the log are the tool results of the finished
\* tasks, and every finished task has its result among them
ResultsAtEnd(n) ==
  /\ Len(memory) > n
  /\ \A k \in 1..n : \E i \in FinishedTasks :
        memory[Len(memory) - n + k] = ToolResultMessage(tasks[i])
  /\ \A i \in FinishedTasks : \E k \in 1..n :
        memory[Len(memory) - n + k] = ToolResultMessage(tasks[i])

\* C30: while the loop runs the log holds one assistant message per
\* reasoning step made; during the acting step the message built from the
\* whole model output stands in the log right before the results of the
\* iteration, whatever the state of its actions; and when the next
\* reasoning step is about to call the model every action of the iteration
\* is over and its result is in the log.
C30_OneMessageThenResults ==
  /\ pc \in {"reasoning", "acting", "summarizing"} =>
        Len(RequestMessages) = stats.reasonings
  /\ pc = "acting" =>
        /\ ResultsAtEnd(Cardinality(FinishedTasks))
        /\ memory[Len(memory) - Cardinality(FinishedTasks)] =
              ReasoningMessage(stats.lastOut, iteration)
  /\ (pc \in {"reasoning", "summarizing"} /\ iteration > 0) =>
        /\ FinishedTasks = 1..Len(tasks)
        /\ ResultsAtEnd(Len(tasks))
        /\ memory[Len(memory) - Len(tasks)] =
              ReasoningMessage(stats.lastOut, iteration - 1)

\* two actions of the first iteration are over and logged, the second
\* reasoning step has not called the model yet
C30_Witness ==
  /\ pc = "reasoning"
  /\ iteration = 1
  /\ Len(tasks) = 2
  /\ FinishedTasks = {1, 2}
  /\ Len(RequestMessages) = 1
  /\ IsToolUseMessage(memory[Len(memory) - 2])

\* -------------------------------------------------------------- termination
\* a step of the reply call in progress: a model call that answers or
\* fails, a tool called, one round of for await, the scan of the responses
ReplyStep ==
  \/ \E out \in ModelOutputs(iteration, MaxRequests - stats.requests) :
        Reasoning(out)
  \/ ModelCallFails
  \/ \E i \in 1..Len(tasks) : \E plan \in PlansFor(tasks[i].call) :
        ActInvoke(i, plan)
  \/ \E i \in 1..Len(tasks) : ActNext(i)
  \/ Scan
  \/ \E out \in SummaryOutputs : Summarizing(out)

\* every model call and every tool result sequence finishes: a step of the
\* reply call that can be taken is eventually taken
SpecLive == Spec /\ WF_vars(ReplyStep)

\* C31: a reply call that has begun eventually returns or raises.
C31_ReplyTerminates ==
  (pc # "idle") ~> (pc \in {"returned", "raised"})

\* a call that returned after maxIters iterations in which a completion
\* request was rejected and a tool failed
C31_Witness ==
  /\ pc = "returned"
  /\ maxIters = MaxK
  /\ iteration = maxIters
  /\ \E i \in 1..Len(tasks) :
        /\ tasks[i].call.name = finishFunctionName
        /\ tasks[i].responseMsg = Null
  /\ \E i \in 1..Len(tasks) : Threw(tasks[i])

\* ---------------------------------------- hooks before and after one step
\* C32: when a reasoning or acting step is over, no registered hook was
\* called both before the step and after it.
C32_HookCalledOnOneSideOnly ==
  (dispatch.pc = "done" /\ dispatch.point \in ReActHookStores) =>
     \A i \in 1..Len(dispatch.trace) : \A j \in 1..Len(dispatch.trace) :
        ~(/\ dispatch.trace[i].phase = "pre"
          /\ dispatch.trace[j].phase = "post"
          /\ dispatch.trace[i].scope = dispatch.trace[j].scope
          /\ dispatch.trace[i].name = dispatch.trace[j].name)

\* ------------------------------------------------- hooks that return null
NullHooks == [name : {"a", "b"}, does : {"null", "replace"}]

NextNullHook ==
  \/ \E hook \in NullHooks : registerInstanceHook("post_reply", hook)
  \/ \E st \in ReActHookStores : \E hook \in NullHooks :
        registerInstanceReActHook(st, hook)
  \/ \E point \in {"reply", "reasoning", "acting"} : DispatchPre(point)
  \/ DispatchStep
  \/ DispatchPost
  \/ DispatchReturn

SpecNullHook == InitHooks /\ [][NextNullHook]_vars

\* C33: the step produced a result; every post hook of a reply, reasoning
\* or acting step then receives a result that is not null, and what the
\* wrapped step returns is not null: a hook returning null drops nothing.
C33_NullLeavesResult ==
  dispatch.pc = "done" =>
     /\ dispatch.value # Null
     /\ \A i \in 1..Len(dispatch.trace) :
           dispatch.trace[i].phase = "post"
              => dispatch.trace[i].received # Null

\* ------------------------------------------------------------------ observe
ObservedMsg == Message("other", Plain("seen"), "assistant", EmptyObj)

\* ReActAgent.observe(msg): the message is added to memory; no hook of any
\* hook type is looked up or called
observe ==
  /\ dispatch.pc = "idle"
  /\ Len(memory) < MaxObserved
  /\ memory' = Append(memory, ObservedMsg)
  /\ dispatch' = [NoDispatch EXCEPT !.point = "observe", !.pc = "done",
                                    !.stepRan = TRUE]
  /\ UNCHANGED <<hooks, callVars, longTermMemory, config, parallelToolCalls,
                 maxIters, tools, equippedTools, requiredStructuredModel,
                 pc, iteration, replyMsg, tasks, stats>>

NextObserve ==
  \/ \E hookType \in ObserveHookTypes : \E hook \in HookTypeHooks :
        registerInstanceHook(hookType, hook)
  \/ \E hookType \in ObserveHookTypes : \E hook \in HookTypeHooks :
        registerClassHook(hookType, hook)
  \/ observe
  \/ DispatchReturn

SpecObserve == InitHooks /\ [][NextObserve]_vars

\* C34: when observe(msg) is over, msg is in the log, every hook
\* registered on pre_observe was called before the append and every hook
\* registered on post_observe after it.
C34_ObserveRunsItsHooks ==
  (dispatch.pc = "done" /\ dispatch.point = "observe") =>
     /\ memory[Len(memory)] = ObservedMsg
     /\ \A i \in 1..Len(hooks.registered) : \A phase \in {"pre", "post"} :
           hooks.registered[i].store = HookTypeOf(phase, "observe")
              => CalledIn(phase, hooks.registered[i])

\* ------------------------------------------- the registry and the equipped set
\* what extractFunctionMetadata builds for a function of one parameter
ExtractedMetadata == ToolMetadata(<<"a">>, <<>>, "user")
\* the metadata handed to registerToolWithMetadata
GivenMetadata == ToolMetadata(<<"a">>, <<"a">>, "user")

\* the toolkit is used between two reply calls; nothing else changes
ToolkitFrame ==
  /\ pc = "idle"
  /\ UNCHANGED <<hookVars, callVars, longTermMemory, config,
                 parallelToolCalls, maxIters, requiredStructuredModel,
                 memory, pc, iteration, replyMsg, tasks, stats>>

\* tools.set(name, metadata)
ToolsSet(name, metadata) ==
  [n \in DOMAIN tools \cup {name} |->
     IF n = name THEN metadata ELSE tools[n]]

registerToolFunction(name) ==
  /\ ToolkitFrame
  /\ tools' = ToolsSet(name, ExtractedMetadata)
  /\ equippedTools' = equippedTools \cup {name}

registerToolWithMetadata(name) ==
  /\ ToolkitFrame
  /\ tools' = ToolsSet(name, GivenMetadata)
  /\ equippedTools' = equippedTools \cup {name}

\* mutant: the tool is unregistered and stays equipped
removeToolFunctionKeepsEquipped(name) ==
  /\ ToolkitFrame
  /\ tools' = [n \in DOMAIN tools \ {name} |-> tools[n]]
  /\ UNCHANGED equippedTools

\* removeToolFunction(name): nothing happens when name is not registered
removeToolFunction(name) ==
  /\ ToolkitFrame
  /\ tools' = [n \in DOMAIN tools \ {name} |-> tools[n]]
  /\ equippedTools' = IF name \in DOMAIN tools
                      THEN equippedTools \ {name} ELSE equippedTools

\* Toolkit.clear()
clear ==
  /\ ToolkitFrame
  /\ tools' = [n \in {} |-> GivenMetadata]
  /\ equippedTools' = {}

NextRegistry ==
  \/ \E name \in ToolNames : registerToolFunction(name)
  \/ \E name \in ToolNames : registerToolWithMetadata(name)
  \/ \E toolNames \in SUBSET ToolNames : resetEquippedTools(toolNames)
  \/ \E name \in ToolNames : removeToolFunction(name)
  \/ clear

SpecRegistry == Init /\ [][NextRegistry]_vars

\* C35: every equipped name is registered, and the schemas offered to the
\* model are those of the equipped names.
C35_EquippedAreRegistered ==
  /\ equippedTools \subseteq DOMAIN tools
  /\ getJsonSchemas = equippedTools

\* after a removal, two registrations and a reset: echo is gone, ghost is
\* registered and equipped, generate_response is registered and left out
C35_Witness ==
  /\ ~("echo" \in DOMAIN tools)
  /\ "ghost" \in equippedTools
  /\ tools["ghost"] = ExtractedMetadata
  /\ finishFunctionName \in DOMAIN tools
  /\ ~(finishFunctionName \in equippedTools)

\* ------------------------------------------------------------ the meta tool
MetaCallOf(names, it, k) ==
  createToolUseBlock("reset_equipped_tools", [toolNames |-> NameList(names)],
                     [it |-> it, k |-> k])

\* the lists of names the model asks to equip: all registered, with the
\* completion action or without it, or with a name that is not registered
ResetRequests ==
  {{finishFunctionName, "echo", "reset_equipped_tools"},
   {"echo", "hidden"},
   {finishFunctionName, "echo", "ghost"}}

MetaOutputs(it) ==
  {Complete(<<createTextBlock("x")>>), Complete(<<CallOf("ECHO_A", it, 1)>>)}
  \cup {Complete(<<MetaCallOf(names, it, 1)>>) : names \in ResetRequests}
  \cup {Complete(<<MetaCallOf(names, it, 1), CallOf("FIN", it, 2)>>) :
          names \in ResetRequests}

\* the agent is built with enable_meta_tool
InitMeta == \E cfg \in 1..MaxK : ConstructedFrom(cfg, NoLongTermMemory, TRUE)

NextMeta ==
  \/ \E toolNames \in SUBSET ToolNames : resetEquippedTools(toolNames)
  \/ Reply(NoContract)
  \/ \E out \in MetaOutputs(iteration) : Reasoning(out)
  \/ \E i \in 1..Len(tasks) : \E plan \in PlansFor(tasks[i].call) :
        ActInvoke(i, plan)
  \/ \E i \in 1..Len(tasks) : ActNext(i)
  \/ Scan
  \/ Summarizing(Complete(<<createTextBlock("x")>>))

SpecMeta == InitMeta /\ [][NextMeta]_vars

\* task i is the meta tool about to run its body
ResetPending(i) ==
  /\ pc = "acting"
  /\ tasks[i].pc = "drain"
  /\ tasks[i].gen.plan = ResetPlan
  /\ Len(tasks[i].results) = 0

\* C36: no step changes the registry, and the equipped set only ever changes
\* to a set of registered names; when the meta tool runs with a list holding
\* an unregistered name, the equipped set stays as it was, the action gets
\* a failed result and its promise is not rejected.
C36_FailedResetChangesNothing ==
  [][/\ tools' = tools
     /\ equippedTools' # equippedTools => equippedTools' \subseteq DOMAIN tools
     /\ \A i \in 1..Len(tasks) :
          (/\ ResetPending(i)
           /\ ~(tasks[i].gen.args[1].items \subseteq DOMAIN tools)
           /\ Len(tasks'[i].results) = 1)
          => /\ equippedTools' = equippedTools
             /\ ~tasks'[i].results[1].metadata.success
             /\ ~tasks'[i].rejected
             /\ pc' = "acting"]_vars

\* the model asked to equip a list holding `ghost`: the action is over with
\* a failed result, and the equipped set is the one setupToolkit built
C36_Witness ==
  /\ \E i \in 1..Len(tasks) :
        /\ tasks[i].call.name = "reset_equipped_tools"
        /\ "ghost" \in tasks[i].call.input.toolNames.items
        /\ tasks[i].pc = "done"
        /\ Len(tasks[i].results) = 1
        /\ ~tasks[i].results[1].metadata.success
  /\ equippedTools = {finishFunctionName, "echo", "reset_equipped_tools"}
  /\ stats.raisedBy = "none"

\* C37: while a reply call runs, no step takes the completion action out of
\* the equipped set.
C37_CompletionStaysEquipped ==
  [][(pc # "idle" /\ finishFunctionName \in equippedTools)
       => finishFunctionName \in equippedTools']_vars

\* -------------------------------------------- print keeps the message (C39)
\* C39: the Reasoning step appends to the log, and scans for actions, the
\* message it built from the model output: being printed in between, with
\* the finish-function pre-print hook installed, changes nothing in it.
C39_PrintLeavesMessage ==
  [][(pc = "reasoning" /\ pc' = "acting")
       => LET built == SynthesizeFinish(AggregateReasoning(stats'.lastOut),
                                        iteration)
              requests == getToolUseBlocks(built)
          IN /\ memory' = Append(memory, built)
             /\ Len(tasks') = Len(requests)
             /\ \A i \in 1..Len(requests) : tasks'[i].call = requests[i]]_vars

\* the model asked for the completion action itself: the message shown had
\* the request replaced by text, the one in the log still holds it
C39_Witness ==
  /\ pc = "acting"
  /\ LET msg == memory[Len(memory)]
     IN /\ \E i \in 1..Len(msg.content.blocks) :
              /\ IsToolUse(msg.content.blocks[i])
              /\ msg.content.blocks[i].name = finishFunctionName
              /\ msg.content.blocks[i].id.k > 0
        /\ ~hasToolUse(Displayed(msg, TRUE))
        /\ AfterPrint(msg, TRUE) = msg

\* -------------------------------------------------- SimpleLongTermMemory
\* A message content is the sequence of words that splitting its lower-cased
\* text on white space gives; the empty sequence is a blank content.
Contents ==
  {<<>>, <<"ab", "cat">>, <<"dog">>, <<"cat", "dog", "cat">>}

RECURSIVE Distinct(_)
\* [...new Set(words)]: the first occurrence of every word, in order
Distinct(words) ==
  IF words = <<>> THEN <<>>
  ELSE LET w == words[Len(words)]
           front == SubSeq(words, 1, Len(words) - 1)
           rest == Distinct(front)
       IN IF \E i \in 1..Len(front) : front[i] = w THEN rest
          ELSE Append(rest, w)

\* extractKeywords: the words longer than two characters, without
\* repetitions, ten at most
extractKeywords(words) ==
  LET long == Distinct(SelectSeq(words, LAMBDA w : Len(w) > 2))
  IN SubSeq(long, 1, IF Len(long) < 10 THEN Len(long) ELSE 10)

\* new SimpleLongTermMemory(maxEntries), given to an agent in static control
SimpleLongTermMemory(maxEntries) ==
  [present |-> TRUE, mode |-> "static_control",
   storage |-> [k \in {} |-> <<>>], maxEntries |-> maxEntries,
   msgs |-> <<>>]

\* mutant: the entry that goes when the list is full is the one just pushed
PushDropNewest(entries, content, maxEntries) ==
  IF Len(entries) + 1 > maxEntries THEN entries ELSE Append(entries, content)

\* entries.push(content); if (entries.length > maxEntries) entries.shift()
Push(entries, content, maxEntries) ==
  IF Len(entries) + 1 > maxEntries
  THEN Tail(Append(entries, content))
  ELSE Append(entries, content)

RECURSIVE RecordKeywords(_, _, _, _)
\* for (const keyword of keywords): the list of the keyword is created when
\* missing, then pushed to
RecordKeywords(storage, keywords, content, maxEntries) ==
  IF keywords = <<>> THEN storage
  ELSE LET k == Head(keywords)
           entries == IF k \in DOMAIN storage THEN storage[k] ELSE <<>>
           pushed == Push(entries, content, maxEntries)
       IN RecordKeywords([n \in DOMAIN storage \cup {k} |->
                            IF n = k THEN pushed ELSE storage[n]],
                         Tail(keywords), content, maxEntries)

RECURSIVE RecordAll(_, _, _)
\* for (const msg of msgs): a blank content is skipped
RecordAll(storage, msgs, maxEntries) ==
  IF msgs = <<>> THEN storage
  ELSE RecordAll(IF Head(msgs) = <<>> THEN storage
                 ELSE RecordKeywords(storage, extractKeywords(Head(msgs)),
                                     Head(msgs), maxEntries),
                 Tail(msgs), maxEntries)

\* SimpleLongTermMemory.record(msgs)
SimpleRecord(msgs) ==
  /\ pc = "idle"
  /\ longTermMemory' =
       [longTermMemory EXCEPT
          !.storage = RecordAll(@, msgs, longTermMemory.maxEntries),
          !.msgs = msgs]
  /\ UNCHANGED <<hookVars, callVars, config, parallelToolCalls, maxIters,
                 tools, equippedTools, requiredStructuredModel, memory, pc,
                 iteration, replyMsg, tasks, stats>>

InitSimpleMemory ==
  \E maxEntries \in 1..MaxEntries :
     ConstructedWith(1, SimpleLongTermMemory(maxEntries))

NextSimpleMemory ==
  \E msgs \in UNION {[1..n -> Contents] : n \in 1..2} : SimpleRecord(msgs)

SpecSimpleMemory == InitSimpleMemory /\ [][NextSimpleMemory]_vars

\* the contents of msgs that hold the word k, in the order recorded
Holding(msgs, k) ==
  SelectSeq(msgs, LAMBDA c : \E i \in 1..Len(c) : c[i] = k)

\* the last n entries of a list
LastOf(entries, n) == SubSeq(entries, Len(entries) - n + 1, Len(entries))

\* C40: no keyword ever holds more than maxEntries entries, and after a
\* record call the list of every keyword is the end of the old list followed
\* by the new contents holding that keyword: entries leave from the old end
\* and the newest stay.
C40_OldestDroppedNewestKept ==
  [][\A k \in DOMAIN longTermMemory'.storage :
       LET old == IF k \in DOMAIN longTermMemory.storage
                  THEN longTermMemory.storage[k] ELSE <<>>
           all == old \o Holding(longTermMemory'.msgs, k)
           kept == longTermMemory'.storage[k]
       IN /\ Len(kept) <= longTermMemory.maxEntries
          /\ Len(kept) = IF Len(all) < longTermMemory.maxEntries
                         THEN Len(all) ELSE longTermMemory.maxEntries
          /\ kept = LastOf(all, Len(kept))]_vars

\* a full list was pushed to: its oldest entry is gone, the content just
\* recorded is its last entry
C40_Witness ==
  /\ "storage" \in DOMAIN longTermMemory
  /\ "cat" \in DOMAIN longTermMemory.storage
  /\ longTermMemory.maxEntries = 2
  /\ longTermMemory.storage["cat"] =
       <<(<<"cat", "dog", "cat">>), (<<"ab", "cat">>)>>
  /\ longTermMemory.storage["dog"] = <<(<<"dog">>), (<<"cat", "dog", "cat">>)>>
  /\ longTermMemory.msgs = <<(<<"ab", "cat">>)>>

\* ---------------------------------------------------- overlapping reply calls
\* reply is an async method and nothing stops a second call while the first
\* is suspended at an await.  pc, iteration, replyMsg, tasks and stats are
\* the locals of the call that is running; `caller` also keeps the
\* structuredModel argument of that call and the locals of the call that is
\* suspended.  The fields of the agent (requiredStructuredModel, the
\* toolkit, the log) belong to both.
Locals ==
  [pc |-> pc, iteration |-> iteration, replyMsg |-> replyMsg,
   tasks |-> tasks, stats |-> stats, contract |-> caller.contract]

EnterWith(contract, waiting) ==
  [entry |-> "reply", calls |-> caller.calls + 1, interruptPending |-> FALSE,
   afterInterrupt |-> FALSE, contract |-> contract, waiting |-> waiting]

\* the first reply call
ReplyFirst(contract) ==
  /\ ReplyStart(contract)
  /\ caller' = EnterWith(contract, Null)

\* reply(msg, structuredModel) called while another call is suspended
ReplyOverlapping(contract) ==
  /\ pc \in {"reasoning", "acting", "summarizing"}
  /\ caller.calls = 1
  /\ memory' = MemoryAtStart
  /\ longTermMemory' = GatewayAtStart
  /\ requiredStructuredModel' = contract
  /\ tools' = IF contract # NoContract /\ finishFunctionName \in DOMAIN tools
              THEN [tools EXCEPT ![finishFunctionName].extendedModel = contract]
              ELSE tools
  /\ replyMsg' = Null
  /\ iteration' = 0
  /\ tasks' = <<>>
  /\ pc' = IF LoopContinues(0) THEN "reasoning" ELSE "summarizing"
  /\ stats' = ZeroStats
  /\ caller' = EnterWith(contract, Locals)
  /\ UNCHANGED <<hookVars, replyTask, config, parallelToolCalls, maxIters,
                 equippedTools>>

\* the running call is suspended at an await, or over, and the event loop
\* resumes the other one
Resume ==
  /\ caller.calls = 2
  /\ caller.waiting.pc \in {"reasoning", "acting", "summarizing"}
  /\ pc' = caller.waiting.pc
  /\ iteration' = caller.waiting.iteration
  /\ replyMsg' = caller.waiting.replyMsg
  /\ tasks' = caller.waiting.tasks
  /\ stats' = caller.waiting.stats
  /\ caller' = [caller EXCEPT !.contract = caller.waiting.contract,
                              !.waiting = Locals]
  /\ UNCHANGED <<hookVars, replyTask, longTermMemory, config,
                 parallelToolCalls, maxIters, tools, equippedTools,
                 requiredStructuredModel, memory>>

OverlapOutputs(it) ==
  {Complete(<<createTextBlock("x")>>)}
  \cup {Complete(<<CallOf(kind, it, 1)>>) : kind \in {"FIN", "FIN_T"}}

InitOverlap == Constructed(1)

NextOverlap ==
  \/ \E c \in Contracts : ReplyFirst(c)
  \/ \E c \in Contracts : ReplyOverlapping(c)
  \/ Resume
  \/ \E out \in OverlapOutputs(iteration) : Reasoning(out)
  \/ \E i \in 1..Len(tasks) : \E plan \in PlansFor(tasks[i].call) :
        ActInvoke(i, plan)
  \/ \E i \in 1..Len(tasks) : ActNext(i)
  \/ Scan
  \/ Summarizing(Complete(<<createTextBlock("x")>>))

SpecOverlap == InitOverlap /\ [][NextOverlap]_vars

\* C38: whenever generateResponse has run for a completion request of the
\* running call, its result is the one the structuredModel of that call
\* gives for the request's arguments: a reply is adopted only if that
\* contract accepts it, and a call without a contract is never rejected.
C38_ValidatedAgainstOwnContract ==
  caller.calls > 0 =>
    \A i \in 1..Len(tasks) :
       (/\ tasks[i].call.name = finishFunctionName
        /\ tasks[i].called
        /\ Len(tasks[i].results) > 0)
       => tasks[i].results[1] = generateResponse(tasks[i].args, caller.contract)
====
